---------------------------- MODULE Spec2Model ----------------------------
(***************************************************************************)
(* A model of cargo-atcoder's session transport and submission tracker:    *)
(*   - the manual redirect loop of AtCoder::http_req (src/atcoder.rs) and  *)
(*     of Client::req (src/http.rs),                                       *)
(*   - the status grammar StatusCode::from_str (src/atcoder.rs),           *)
(*   - the poll/fold and redraw tasks of watch_submission_status           *)
(*     (src/main.rs).                                                      *)
(* Each part has a specification of its own over the shared variables:     *)
(* SpecHttp, SpecParse, SpecWatch (and SpecWatchFair, with the fairness of *)
(* the tokio scheduler).                                                   *)
(***************************************************************************)
EXTENDS Integers, Sequences, FiniteSets, TLC

VARIABLES
    \* ---- HTTP transport (one call of http_req / Client::req) ----
    hpc,            \* position in the call: "idle", "loop", "await", "done"
    impl,           \* which loop runs: "AtCoder" (http_req) or "Client" (req)
    method,         \* `mut method`
    url,            \* the URL the next iteration requests
    call,           \* TRUE while the boxed `call` is still the caller's closure
    rest_redirects, \* `rest_redirects`
    cookie_store,   \* the CookieStore: host -> cookie value or NoCookie
    res,            \* the response handled last
    hresult,        \* the value the call returned
    requests,       \* every request put on the wire by this call
    responses,      \* a summary of every response given to this call
    \* ---- status grammar ----
    token,          \* the status token handed to from_str
    parsed,         \* what from_str gave for it
    \* ---- submission tracker (one call of watch_submission_status) ----
    wpc,            \* the caller: "init", "joining" (at join!), "returned"
    recent_only,    \* the `recent_only` argument
    update_interval,\* config.atcoder.update_interval
    cur_time,       \* `cur_time`, read once when the call starts
    date,           \* the judge's submissions: id -> submission time
    complete,       \* the shared AtomicBool
    upc,            \* update_fut: "idle", "poll", "sleep", "exit", "failed",
                    \*   "panicked"
    rpc,            \* join_fut: "idle", "check", "body", "exit"
    dat,            \* `dat`: id -> (ProgressBar, live flag)
    last_id,        \* `last_id`
    updRes,         \* the output of update_fut's JoinHandle
    wresult,        \* the value the call returned
    polls,          \* number of submission_status calls made
    failure,        \* the error submission_status raised, once it has
    cycle,          \* the last poll's in-scope submissions: how many, and
                    \*   how many of them not Done
    everDone,       \* ids that have been folded with a Done status
    lastFold,       \* id -> status tag folded in the last cycle ("DoneAgain"
                    \*   for a Done folded after an earlier Done), or "-"
    \* ---- session client over the runs of the tool (one command per run) ----
    lastList,       \* the rows submission_status returned to the last poll
    foldSeq,        \* the ids folded in the last cycle, in the order folded
    pace,           \* the ticks and the sleep since the last poll
    spc,            \* "none" (no client), "open", "dropping", "ended"
    file,           \* the session file
    cmdResult,      \* the result of the command of this run
    stderr,         \* TRUE once this run has printed the save error
    writes,         \* number of times this run's Drop has run
    calls,          \* number of http_req calls made in this run
    runs,           \* number of runs started
    loaded,         \* what the client of this run was constructed from:
                    \*   "-", "absent" or "file"
    drop,           \* the last Drop: its outcome and the store it ran on
    \* ---- base64 ----
    bpc,            \* "in", "encoded", "decoded"
    bytes,          \* the byte sequence given to encode
    encoded,        \* encode(bytes), a sequence of characters
    decoded,        \* decode(encoded)
    \* ---- sample tests ----
    tpc,            \* "start", "done"
    targs,          \* the arguments and what cargo and the program do
    tout,           \* the lines printed on stdout
    tres,           \* the value test_samples or test_custom returned
    tcmd,           \* the value the `test` command returned
    tsubmit,        \* whether the command called submit
    ttrack,         \* the tracking session the command started, if any
    \* ---- two invocations sharing the session file ----
    ipc,            \* invocation -> "none", "open", "saving", "ended", "failed"
    istore,         \* invocation -> the cookies of its store
    iqueue,         \* invocation -> the lines save_json has still to write
    ipos,           \* invocation -> the offset of its file handle, in lines
    disk,           \* the session file: whether it exists, and its lines
    tornDown        \* the invocations whose Drop has ended, in that order

httpVars  == <<hpc, impl, method, url, call, rest_redirects, cookie_store,
               res, hresult, requests, responses>>
parseVars == <<token, parsed>>
watchVars == <<wpc, recent_only, update_interval, cur_time, date, complete,
               upc, rpc, dat, last_id, updRes, wresult, polls, failure,
               cycle, everDone, lastFold, lastList, foldSeq, pace>>
sessVars  == <<spc, file, cmdResult, stderr, writes, calls, runs, loaded,
               drop>>
b64Vars   == <<bpc, bytes, encoded, decoded>>
testVars  == <<tpc, targs, tout, tres, tcmd, tsubmit, ttrack>>
shareVars == <<ipc, istore, iqueue, ipos, disk, tornDown>>
vars      == <<httpVars, parseVars, watchVars, sessVars, b64Vars, testVars,
               shareVars>>

\* What each part leaves alone.
notHttp  == <<parseVars, watchVars, sessVars, b64Vars, testVars,
             shareVars>>
notParse == <<httpVars, watchVars, sessVars, b64Vars, testVars,
             shareVars>>
notWatch == <<httpVars, parseVars, sessVars, b64Vars, testVars,
             shareVars>>
notSess  == <<parseVars, watchVars, b64Vars, testVars,
             shareVars>>
notB64   == <<httpVars, parseVars, watchVars, sessVars, testVars,
             shareVars>>
notTest  == <<httpVars, parseVars, watchVars, sessVars, b64Vars, shareVars>>
notShare == <<httpVars, parseVars, watchVars, sessVars, b64Vars, testVars>>

None == "None"

(***************************************************************************)
(*                          HTTP TRANSPORT                                 *)
(***************************************************************************)

\* const REDIRECTS: u32 = 5;
REDIRECTS_4 == 5 - 1
REDIRECTS == 5

OriginHost == "atcoder.jp"
OtherHost  == "other.example"
Hosts == {OriginHost, OtherHost}
Paths == {"/", "/login"}
Urls  == [host : Hosts, path : Paths]

Methods == {"GET", "POST"}

\* Set-Cookie of a response: none, a cookie value, or a header that
\* `str::parse::<Cookie>` rejects.
NoCookie  == "NoCookie"
BadCookie == "BadCookie"
CookieValues == {"s1"}

\* Location of a response: absent, absolute, relative (a path), or a
\* reference Url::join rejects.
NoLocation  == [kind |-> "none"]
BadLocation == [kind |-> "bad"]
Locations ==
    {NoLocation, BadLocation}
      \cup [kind : {"abs"}, host : Hosts, path : Paths]
      \cup [kind : {"rel"}, path : Paths]

ReadError == "ReadError"
Bodies == {"body1", "body2"}

\* No response handled yet, and no value returned yet.
NoResponse == [kind |-> "none", status |-> 0, statusText |-> "",
               location |-> NoLocation, setCookie |-> NoCookie,
               body |-> ReadError]
NoResult == [ok |-> FALSE, err |-> [kind |-> "NotReturned"]]

\* What the server (or the network) can answer to one request.
Responses ==
    {[kind |-> "synthetic", status |-> 0, statusText |-> "",
      location |-> NoLocation, setCookie |-> NoCookie, body |-> ReadError]}
      \cup [kind : {"http"}, status : {404},
            statusText : {"Not Found", "Gone Away"}, location : {NoLocation},
            setCookie : {NoCookie} \cup CookieValues, body : {ReadError}]
      \cup [kind : {"http"}, status : {500},
            statusText : {"Internal Server Error"}, location : {NoLocation},
            setCookie : {NoCookie} \cup CookieValues, body : {ReadError}]
      \cup [kind : {"http"}, status : {200}, statusText : {"OK"},
            location : {NoLocation},
            setCookie : {NoCookie, BadCookie} \cup CookieValues,
            body : Bodies \cup {ReadError}]
      \cup [kind : {"http"}, status : {302}, statusText : {"Found"},
            location : Locations,
            setCookie : {NoCookie, BadCookie} \cup CookieValues,
            body : {ReadError}]

\* What Url::join gives for a reference it cannot parse (an Err).
BadUrl == [host |-> "", path |-> ""]

\* Url::join: an absolute reference replaces the URL, a relative one keeps
\* the host.
Join(u, loc) ==
    CASE loc.kind = "abs" -> [host |-> loc.host, path |-> loc.path]
      [] loc.kind = "rel" -> [host |-> u.host, path |-> loc.path]
      [] OTHER -> BadUrl

\* CookieStore::get_request_cookies joined into the Cookie header; None
\* stands for the header being left out (`!cookie_header.is_empty()`).
CookieHeader(store, u) ==
    IF store[u.host] = NoCookie THEN None ELSE store[u.host]

\* CookieStore::store_response_cookies(cookies, &url).
StoreResponseCookies(store, c, u) ==
    IF c = NoCookie THEN store ELSE [store EXCEPT ![u.host] = c]

\* res.error(): a 4xx or 5xx status.
IsErrorOnlyServer(r) == r.status >= 500
IsError(r) == r.status >= 400

IsRedirect(r) == r.status >= 300 /\ r.status <= 399

Ok(v)  == [ok |-> TRUE, val |-> v]
Err(e) == [ok |-> FALSE, err |-> e]
\* StatusError::new(&res): res.get_url() is the URL the request was made
\* for. StatusError::status() reads the code back.
StatusError(r, u) ==
    [kind |-> "StatusError", url |-> u, status |-> r.status,
     status_text |-> r.statusText]
Status(e) == e.status

\* The URL of the next hop. http_req assigns the joined URL to its `mut url`
\* (atcoder.rs:906); Client::req binds it to a new `url` that lives only to
\* the end of the iteration (http.rs:182), so its next iteration requests
\* the `url` parameter again.
NextUrl(i, u, joined) == IF i = "AtCoder" THEN joined ELSE u

\* http_get / http_post_form / Client::get / Client::post_form: the entry of
\* one call. http_req builds the URL from the origin and the path.
HttpReq(i, m, p) ==
    /\ hpc = "idle"
    /\ hpc' = "loop"
    /\ impl' = i
    /\ method' = m
    /\ url' = [host |-> OriginHost, path |-> p]
    /\ call' = TRUE
    /\ rest_redirects' = REDIRECTS
    /\ UNCHANGED <<cookie_store, res, hresult, requests, responses>>

\* The top of the loop up to the request being sent: the Cookie header is
\* built for `url`, and the boxed `call` is replaced by Request::call, so
\* only the first request carries the caller's form.
HttpSend ==
    /\ hpc = "loop"
    /\ requests' = Append(requests,
          [method |-> method, url |-> url,
           cookie |-> CookieHeader(cookie_store, url),
           form |-> (call /\ method = "POST")])
    /\ call' = FALSE
    /\ hpc' = "await"
    /\ UNCHANGED <<impl, method, url, rest_redirects, cookie_store, res,
                   hresult, responses>>

\* The rest of the iteration, for the response r.
Finish(r, store, m, result) ==
    /\ hpc' = "done"
    /\ hresult' = result
    /\ cookie_store' = store
    /\ method' = m
    /\ UNCHANGED <<impl, url, call, rest_redirects>>

\* What the log keeps of a response to a request for u: its status, whether
\* it is a well-formed HTTP response (parsable Set-Cookie, readable body of
\* a 2xx), and the host its Location points to.
Summary(r, u) ==
    [status |-> r.status,
     wellFormed |-> /\ r.kind = "http"
                    /\ r.setCookie # BadCookie
                    /\ (r.status = 200 => r.body # ReadError),
     target |-> IF r.location.kind = "abs" THEN r.location.host
                ELSE IF r.location.kind = "rel" THEN u.host
                ELSE r.location.kind]

BudgetExhausted(n) == n = 0

CrossHostNever(u) == FALSE
CrossHost(u) == u.host # OriginHost

\* `method = "GET";` once the Location has been resolved.
MethodAfterRedirectKept(m) == m
MethodAfterRedirect(m) == "GET"

HttpHandle(r) ==
    /\ hpc = "await"
    /\ res' = r
    /\ responses' = Append(responses, Summary(r, url))
    /\ UNCHANGED requests
    /\ IF r.kind = "synthetic"
         THEN Finish(r, cookie_store, method, Err([kind |-> "Transport"]))
       ELSE IF IsError(r)
         THEN Finish(r, cookie_store, method, Err(StatusError(r, url)))
       ELSE IF r.setCookie = BadCookie
         THEN Finish(r, cookie_store, method, Err([kind |-> "SetCookieParse"]))
       ELSE
         LET store == StoreResponseCookies(cookie_store, r.setCookie, url) IN
         IF ~IsRedirect(r)
           THEN Finish(r, store, method,
                       IF r.body = ReadError
                         THEN Err([kind |-> "BodyRead"]) ELSE Ok(r.body))
         ELSE IF BudgetExhausted(rest_redirects)
           THEN Finish(r, store, method, Err([kind |-> "TooManyRedirects"]))
         ELSE IF r.location = NoLocation
           THEN Finish(r, store, method, Err([kind |-> "NoLocation"]))
         ELSE IF Join(url, r.location) = BadUrl
           THEN Finish(r, store, method, Err([kind |-> "UrlParse"]))
         ELSE IF CrossHost(Join(url, r.location))
           THEN Finish(r, store, MethodAfterRedirect(method),
                       Err([kind |-> "CrossHost"]))
         ELSE
           /\ cookie_store' = store
           /\ method' = MethodAfterRedirect(method)
           /\ url' = NextUrl(impl, url, Join(url, r.location))
           /\ rest_redirects' = rest_redirects - 1
           /\ hpc' = "loop"
           /\ UNCHANGED <<impl, call, hresult>>

InitHttp ==
    /\ hpc = "idle"
    /\ impl = "AtCoder"
    /\ method = "GET"
    /\ url = [host |-> OriginHost, path |-> "/"]
    /\ call = FALSE
    /\ rest_redirects = 0
    /\ cookie_store \in [Hosts -> {NoCookie, "s0"}]
    /\ cookie_store[OtherHost] = NoCookie
    /\ res = NoResponse
    /\ hresult = NoResult
    /\ requests = <<>>
    /\ responses = <<>>

(***************************************************************************)
(*                          STATUS GRAMMAR                                 *)
(* A token is a sequence of one-character strings.                         *)
(***************************************************************************)

Digits == <<"0", "1", "2", "3", "4", "5", "6", "7", "8", "9">>

\* \d of the regex, on the ASCII characters of the model.
IsDigit(c) == \E d \in 1 .. 10 : Digits[d] = c

\* The value of a digit, as str::parse::<usize> reads it.
DigitValueFromOne(c) == CHOOSE d \in 1 .. 10 : Digits[d] = c
DigitValue(c) == (CHOOSE d \in 1 .. 10 : Digits[d] = c) - 1

\* The character ` *` of the regex skips: U+0020 only.
IsSpace(c) == c = " "

\* char::is_whitespace, which str::trim strips.
IsWhitespace(c) == c \in {" ", "\t", "\n", "\r"}

\* str::parse::<usize> of a string of digits (the counts of the model stay
\* far below usize::MAX, where `unwrap` would panic).
RECURSIVE ParseUsize(_)
ParseUsize(ds) ==
    IF ds = <<>> THEN 0
    ELSE 10 * ParseUsize(SubSeq(ds, 1, Len(ds) - 1)) + DigitValue(ds[Len(ds)])

\* The first index at or after i whose character is not a digit (\d+ is
\* greedy), and likewise for the spaces of ` *`.
RECURSIVE SkipDigits(_, _)
SkipDigits(s, i) ==
    IF i <= Len(s) /\ IsDigit(s[i]) THEN SkipDigits(s, i + 1) ELSE i

RECURSIVE SkipSpaces(_, _)
SkipSpaces(s, i) ==
    IF i <= Len(s) /\ IsSpace(s[i]) THEN SkipSpaces(s, i + 1) ELSE i

\* Regex::new(r"^(\d+) */ *(\d+) *(.*)$").captures(s): the three groups, or
\* no match. Every quantifier is greedy and none can give a character back
\* to make a failed match succeed, so the groups are the maximal runs; `.`
\* matches no line feed.
NoCaptures == [matched |-> FALSE]
Captures(s) ==
    LET e1 == SkipDigits(s, 1)
        p  == SkipSpaces(s, e1)
        b2 == SkipSpaces(s, p + 1)
        e2 == SkipDigits(s, b2)
        b3 == SkipSpaces(s, e2)
    IN  IF e1 = 1 THEN NoCaptures
        ELSE IF p > Len(s) \/ s[p] # "/" THEN NoCaptures
        ELSE IF e2 = b2 THEN NoCaptures
        ELSE IF \E k \in b3 .. Len(s) : s[k] = "\n" THEN NoCaptures
        ELSE [matched |-> TRUE,
              g1 |-> SubSeq(s, 1, e1 - 1),
              g2 |-> SubSeq(s, b2, e2 - 1),
              g3 |-> SubSeq(s, b3, Len(s))]

\* str::trim.
RECURSIVE TrimStart(_)
TrimStart(s) ==
    IF s # <<>> /\ IsWhitespace(s[1]) THEN TrimStart(Tail(s)) ELSE s

RECURSIVE TrimEnd(_)
TrimEnd(s) ==
    IF s # <<>> /\ IsWhitespace(s[Len(s)])
      THEN TrimEnd(SubSeq(s, 1, Len(s) - 1)) ELSE s

Trim(s) == TrimEnd(TrimStart(s))

\* enum StatusCode, enum WaitingCode, enum ResultCode, Option<ResultCode>.
Waiting(w) == [tag |-> "Waiting", wait |-> w]
Progress(c, t, o) == [tag |-> "Progress", cur |-> c, total |-> t, code |-> o]
Done(rc) == [tag |-> "Done", code |-> rc]
Known(n) == [rc |-> n, raw |-> <<>>]
Unknown(s) == [rc |-> "Unknown", raw |-> s]
SomeCode(rc) == [some |-> TRUE, v |-> rc]
NoneCode == [some |-> FALSE, v |-> Known("-")]

\* The outcome of a call that does not return: panic!.
Panic == [tag |-> "Panic"]
NotParsed == [tag |-> "NotParsed"]

\* The final `match s` of from_str (atcoder.rs:212-222).
ResultCodeOfSwapped(s) ==
    CASE s = <<"C", "E">> -> Known("CompileError")
      [] s = <<"M", "L", "E">> -> Known("TimeLimitExceeded")
      [] s = <<"T", "L", "E">> -> Known("MemoryLimitExceeded")
      [] s = <<"R", "E">> -> Known("RuntimeError")
      [] s = <<"O", "L", "E">> -> Known("OutputLimitExceeded")
      [] s = <<"I", "E">> -> Known("InternalError")
      [] s = <<"W", "A">> -> Known("WrongAnswer")
      [] s = <<"A", "C">> -> Known("Accepted")
      [] OTHER -> Unknown(s)
ResultCodeOf(s) ==
    CASE s = <<"C", "E">> -> Known("CompileError")
      [] s = <<"M", "L", "E">> -> Known("MemoryLimitExceeded")
      [] s = <<"T", "L", "E">> -> Known("TimeLimitExceeded")
      [] s = <<"R", "E">> -> Known("RuntimeError")
      [] s = <<"O", "L", "E">> -> Known("OutputLimitExceeded")
      [] s = <<"I", "E">> -> Known("InternalError")
      [] s = <<"W", "A">> -> Known("WrongAnswer")
      [] s = <<"A", "C">> -> Known("Accepted")
      [] OTHER -> Unknown(s)

\* What the progress arm does with the parse of the trailing text
\* (atcoder.rs:204-209): a Done is wrapped, anything else panics.
WrapLenient(cur, total, code) ==
    IF code.tag = "Done" THEN Progress(cur, total, SomeCode(code.code))
    ELSE Progress(cur, total, NoneCode)
Wrap(cur, total, code) ==
    IF code.tag = "Done" THEN Progress(cur, total, SomeCode(code.code))
    ELSE Panic

\* StatusCode::from_str. It returns Some(_) or panics: the `?` on the inner
\* call never sees a None.
RECURSIVE from_str(_)
from_str(s) ==
    IF s = <<"W", "J">> THEN Waiting("WaitingForJudge")
    ELSE IF s = <<"W", "R">> THEN Waiting("WaitingForRejudge")
    ELSE
      LET caps == Captures(s) IN
      IF caps.matched
        THEN LET cur   == ParseUsize(caps.g1)
                 total == ParseUsize(caps.g2)
                 rest  == Trim(caps.g3)
             IN  IF rest = <<>> THEN Progress(cur, total, NoneCode)
                 ELSE LET code == from_str(rest) IN
                      IF code.tag = "Panic" THEN Panic
                      ELSE Wrap(cur, total, code)
        ELSE Done(ResultCodeOf(s))

(***************************************************************************)
(* The tokens the grammar is run on: every string of up to MaxAtomLen      *)
(* characters of AtomChars, and every count/count token made of two counts *)
(* up to MaxCount, three gaps of up to MaxGap spaces, and a tail.          *)
(***************************************************************************)
MaxAtomLen == 3
MaxCount == 10
MaxGap == 1

AtomChars == {"A", "C", "W", "J", "R", "T", "L", "E", "M", "O", "I", "Z",
              "3", "6", "9", "/", " "}

RECURSIVE Strings(_)
Strings(n) ==
    IF n = 0 THEN {<<>>}
    ELSE LET shorter == Strings(n - 1) IN
         shorter \cup {Append(x, c) : x \in {y \in shorter : Len(y) = n - 1},
                                      c \in AtomChars}

RECURSIVE Spaces(_)
Spaces(n) == IF n = 0 THEN <<>> ELSE <<" ">> \o Spaces(n - 1)

Gaps == {Spaces(n) : n \in 0 .. MaxGap}

\* Decimal digits of a count, as the judge prints it.
RECURSIVE Dec(_)
Dec(n) ==
    IF n < 10 THEN <<Digits[n + 1]>> ELSE Dec(n \div 10) \o <<Digits[(n % 10) + 1]>>

Tails ==
    {<<>>, <<"A", "C">>, <<"W", "A">>, <<"T", "L", "E">>, <<"M", "L", "E">>,
     <<"O", "L", "E">>, <<"R", "E">>, <<"C", "E">>, <<"I", "E">>,
     <<"Z", "Z">>, <<"W", "J">>, <<"W", "R">>, <<"A", "C", " ">>,
     <<"3", "/", "3">>, <<"6", "/", "9", " ", "A", "C">>,
     <<"6", "/", "9", " ", "W", "J">>}

ProgressTokens ==
    {Dec(c) \o g1 \o <<"/">> \o g2 \o Dec(t) \o g3 \o tl :
        c \in 0 .. MaxCount, t \in 0 .. MaxCount,
        g1 \in Gaps, g2 \in Gaps, g3 \in Gaps, tl \in Tails}

Tokens == Strings(MaxAtomLen) \cup ProgressTokens

\* One call of StatusCode::from_str on the token.
Parse ==
    /\ parsed = NotParsed
    /\ parsed' = from_str(token)
    /\ UNCHANGED token

InitParse ==
    /\ token \in Tokens
    /\ parsed = NotParsed

(***************************************************************************)
(*                        SUBMISSION TRACKER                               *)
(***************************************************************************)
MaxSubs == 2
MaxPolls == 3

Ids == 1 .. MaxSubs

\* `(cur_time - r.date).num_seconds() <= 10`
RecentSeconds == 10
\* `let refresh_rate = 100;` and `max(1000, config.atcoder.update_interval)`
RefreshRate == 100
MinInterval == 1000

\* The submission dates are whole seconds, as the submission list shows
\* them; Utc::now() is finer, and is kept in milliseconds. The submissions
\* are between 10 and 11.5 seconds old when the call starts.
Millis(seconds) == seconds * 1000
StartTimes == {Millis(20), Millis(20) + 500}
Dates == {9, 10}
UpdateIntervals == {500, 1250}

\* The judge numbers submissions in the order they are made.
DateAssignments ==
    {d \in [Ids -> Dates] : \A i, j \in Ids : i < j => d[i] <= d[j]}

\* The statuses a row of the submission list can show, as from_str gives
\* them.
Statuses ==
    {Waiting("WaitingForJudge"), Progress(1, 2, NoneCode),
     Done(Known("Accepted"))}

\* What submission_status can return: any rows, in any order, at most one
\* per submission.
IdLists ==
    {l \in UNION {[1 .. n -> Ids] : n \in 0 .. MaxSubs} :
        \A a, b \in 1 .. Len(l) : a # b => l[a] # l[b]}

Rows(l, st) ==
    [k \in 1 .. Len(l) |-> [id |-> l[k], date |-> date[l[k]], status |-> st[k]]]

\* The errors submission_status can return: those of http_get, and the
\* "not logged in" of check_login.
PollErrors == {"Transport", "StatusError", "RedirectPolicy", "NotLoggedIn"}

\* Option<usize>
NoneId == [some |-> FALSE, id |-> 0]
SomeId(i) == [some |-> TRUE, id |-> i]

\* A ProgressBar with its live flag; `finishes` counts the calls of
\* finish_with_message on it.
NoBar ==
    [present |-> FALSE, live |-> FALSE, style |-> "-", msg |-> <<>>,
     len |-> 0, pos |-> 0, finished |-> FALSE, finishes |-> 0]
\* ProgressBar::new_spinner().with_style(spinner_style), live (main.rs:907-929)
NewBar ==
    [present |-> TRUE, live |-> TRUE, style |-> "spinner", msg |-> <<>>,
     len |-> 0, pos |-> 0, finished |-> FALSE, finishes |-> 0]

\* ResultCode::short_msg and ResultCode::long_msg
ShortMsg(code) ==
    CASE code.rc = "CompileError" -> <<"CE">>
      [] code.rc = "MemoryLimitExceeded" -> <<"MLE">>
      [] code.rc = "TimeLimitExceeded" -> <<"TLE">>
      [] code.rc = "RuntimeError" -> <<"RE">>
      [] code.rc = "OutputLimitExceeded" -> <<"OLE">>
      [] code.rc = "InternalError" -> <<"IE">>
      [] code.rc = "WrongAnswer" -> <<"WA">>
      [] code.rc = "Accepted" -> <<"AC">>
      [] OTHER -> <<"UNK(", code.raw, ")">>

LongMsg(code) ==
    CASE code.rc = "CompileError" -> <<"Compile Error">>
      [] code.rc = "MemoryLimitExceeded" -> <<"Memory Limit Exceeded">>
      [] code.rc = "TimeLimitExceeded" -> <<"Time Limit Exceeded">>
      [] code.rc = "RuntimeError" -> <<"Runtime Error">>
      [] code.rc = "OutputLimitExceeded" -> <<"Output Limit Exceeded">>
      [] code.rc = "InternalError" -> <<"Internal Error">>
      [] code.rc = "WrongAnswer" -> <<"Wrong Answer">>
      [] code.rc = "Accepted" -> <<"Accepted">>
      [] OTHER -> <<"Unknown (", code.raw, ")">>

\* StatusCode::done
IsDone(status) == status.tag = "Done"

\* The filter of recent-only mode (main.rs:892-899).
\* Duration::num_seconds: the whole seconds, rounded towards zero.
num_seconds(ms) == IF ms >= 0 THEN ms \div 1000 ELSE 0 - ((0 - ms) \div 1000)

InScope(r) ==
    num_seconds(cur_time - Millis(r.date)) <= RecentSeconds \/ ~IsDone(r.status)

Filter(results) ==
    IF ~recent_only THEN results ELSE SelectSeq(results, InScope)

\* results.sort_by_key(|r| r.date): a stable sort.
RECURSIVE InsertByDateUnstable(_, _)
InsertByDateUnstable(sorted, r) ==
    IF sorted = <<>> THEN <<r>>
    ELSE IF sorted[Len(sorted)].date < r.date THEN Append(sorted, r)
    ELSE Append(InsertByDateUnstable(SubSeq(sorted, 1, Len(sorted) - 1), r),
                sorted[Len(sorted)])

RECURSIVE InsertByDate(_, _)
InsertByDate(sorted, r) ==
    IF sorted = <<>> THEN <<r>>
    ELSE IF sorted[Len(sorted)].date <= r.date THEN Append(sorted, r)
    ELSE Append(InsertByDate(SubSeq(sorted, 1, Len(sorted) - 1), r),
                sorted[Len(sorted)])

RECURSIVE SortByDate(_)
SortByDate(results) ==
    IF results = <<>> THEN <<>>
    ELSE InsertByDate(SortByDate(SubSeq(results, 1, Len(results) - 1)),
                      results[Len(results)])

\* results.iter().last().map(|r| r.id)
LastId(results) ==
    IF results = <<>> THEN NoneId ELSE SomeId(results[Len(results)].id)

\* The `match result.status` of the fold (main.rs:931-995), on the bar pb.
ApplyStatusRefinish(pb, status) ==
    CASE status.tag = "Waiting" ->
           [pb EXCEPT !.style = "spinner",
                      !.msg = IF status.wait = "WaitingForJudge"
                                THEN <<"Waiting for judge...">>
                                ELSE <<"Waiting for rejudge...">>]
      [] status.tag = "Progress" ->
           [pb EXCEPT !.style = "bar", !.len = status.total,
                      !.pos = status.cur,
                      !.msg = IF status.code.some
                                THEN ShortMsg(status.code.v) ELSE <<"">>]
      [] OTHER ->
           [pb EXCEPT !.style = "finish", !.msg = LongMsg(status.code),
                      !.finished = TRUE, !.finishes = @ + 1,
                      !.live = FALSE]
ApplyStatus(pb, status) ==
    CASE status.tag = "Waiting" ->
           [pb EXCEPT !.style = "spinner",
                      !.msg = IF status.wait = "WaitingForJudge"
                                THEN <<"Waiting for judge...">>
                                ELSE <<"Waiting for rejudge...">>]
      [] status.tag = "Progress" ->
           [pb EXCEPT !.style = "bar", !.len = status.total,
                      !.pos = status.cur,
                      !.msg = IF status.code.some
                                THEN ShortMsg(status.code.v) ELSE <<"">>]
      [] OTHER ->
           IF pb.live
             THEN [pb EXCEPT !.style = "finish", !.msg = LongMsg(status.code),
                             !.finished = TRUE, !.finishes = @ + 1,
                             !.live = FALSE]
             ELSE pb

\* dat.entry(result.id).or_insert_with(..)
Entry(d, id) == IF d[id].present THEN d[id] ELSE NewBar

\* The `for result in results` loop: the bars and the `done` flag after it.
RECURSIVE Fold(_, _, _)
Fold(results, d, done) ==
    IF results = <<>> THEN [dat |-> d, done |-> done]
    ELSE LET r == results[1] IN
         Fold(Tail(results),
              [d EXCEPT ![r.id] = ApplyStatus(Entry(d, r.id), r.status)],
              done /\ IsDone(r.status))

\* `if done && recent_only` (main.rs:998)
ShouldStopNever(done) == FALSE
ShouldStopAlways(done) == done
ShouldStop(done) == done /\ recent_only

\* What the `?` on submission_status does with an error e: update_fut ends
\* with Err(e), before either store to `complete`.
Running == [state |-> "running"]
OkRes(v) == [state |-> "ok", val |-> v]
ErrRes(e) == [state |-> "err", err |-> e]
Panicked == [state |-> "panicked"]
OnErrorRetry(e) == [pc |-> "sleep", out |-> Running]
OnError(e) == [pc |-> "failed", out |-> ErrRes(e)]

\* The body of watch_submission_status up to the join!: read_config()?, the
\* clock, and the two spawns.
WatchStart(recent, interval) ==
    /\ wpc = "init"
    /\ wpc' = "joining"
    /\ recent_only' = recent
    /\ update_interval' = interval
    /\ cur_time' \in StartTimes
    /\ rpc' = "check"
    /\ upc' = "poll"
    /\ UNCHANGED <<date, complete, dat, last_id, updRes, wresult, polls,
                   failure, cycle, everDone, lastFold, lastList, foldSeq,
                   pace>>

\* read_config() fails: the call returns its error and spawns nothing.
WatchConfigError ==
    /\ wpc = "init"
    /\ wpc' = "returned"
    /\ wresult' = [ok |-> FALSE, err |-> "Config"]
    /\ UNCHANGED <<recent_only, update_interval, cur_time, date, complete,
                   upc, rpc, dat, last_id, updRes, polls, failure, cycle,
                   everDone, lastFold, lastList, foldSeq,
                   pace>>

\* One iteration of update_fut's loop whose submission_status returns
\* `list`: filter, sort, fold, and the test that ends the loop.
PollOk(list) ==
    /\ upc = "poll"
    /\ polls < MaxPolls
    /\ polls' = polls + 1
    /\ LET results == SortByDate(Filter(list))
           f == Fold(results, dat, TRUE)
           folded == {results[k].id : k \in 1 .. Len(results)}
       IN  /\ dat' = f.dat
           /\ last_id' = LastId(results)
           /\ cycle' = [inScope |-> Cardinality({k \in 1 .. Len(list) :
                                                   ~recent_only \/ InScope(list[k])}),
                        pending |-> Cardinality({k \in 1 .. Len(list) :
                                                   /\ ~recent_only \/ InScope(list[k])
                                                   /\ list[k].status.tag # "Done"})]
           /\ everDone' = everDone \cup
                  {results[k].id : k \in {n \in 1 .. Len(results) :
                                            results[n].status.tag = "Done"}}
           /\ foldSeq' = [k \in 1 .. Len(results) |-> results[k].id]
           /\ lastFold' = [i \in Ids |->
                  IF i \in folded
                    THEN LET tag == (CHOOSE r \in {results[k] : k \in 1 .. Len(results)} :
                                        r.id = i).status.tag
                         IN  IF tag = "Done" /\ i \in everDone
                               THEN "DoneAgain" ELSE tag
                    ELSE "-"]
           /\ IF ShouldStop(f.done)
                THEN /\ complete' = TRUE
                     /\ upc' = "exit"
                     /\ updRes' = OkRes(LastId(results))
                ELSE /\ upc' = "sleep"
                     /\ UNCHANGED <<complete, updRes>>
    /\ lastList' = list
    /\ UNCHANGED <<wpc, recent_only, update_interval, cur_time, date, rpc,
                   wresult, failure, pace>>

\* submission_status returns Err(e): the `?` ends update_fut.
PollErr(e) ==
    /\ upc = "poll"
    /\ polls < MaxPolls
    /\ polls' = polls + 1
    /\ failure' = [some |-> TRUE, err |-> e, at |-> polls + 1]
    /\ upc' = OnError(e).pc
    /\ updRes' = OnError(e).out
    /\ UNCHANGED <<wpc, recent_only, update_interval, cur_time, date,
                   complete, rpc, dat, last_id, wresult, cycle, everDone,
                   lastFold, lastList, foldSeq, pace>>

\* submission_status panics (a row it cannot read, or from_str's panic): the
\* task ends and its JoinHandle holds a JoinError.
PollPanic ==
    /\ upc = "poll"
    /\ polls < MaxPolls
    /\ polls' = polls + 1
    /\ failure' = [some |-> TRUE, err |-> "Panic", at |-> polls + 1]
    /\ upc' = "panicked"
    /\ updRes' = Panicked
    /\ UNCHANGED <<wpc, recent_only, update_interval, cur_time, date,
                   complete, rpc, dat, last_id, wresult, cycle, everDone,
                   lastFold, lastList, foldSeq, pace>>

\* The ticks between two polls (main.rs:1003-1013): the live bars are
\* ticked and the task sleeps refresh_rate ms, update_interval /
\* refresh_rate times; nothing the other tasks read changes meanwhile.
TicksUnraised == update_interval \div RefreshRate
Ticks == (IF update_interval > MinInterval THEN update_interval
          ELSE MinInterval) \div RefreshRate

NoPace == [ticks |-> 0, slept |-> 0, ticked |-> {}]

Sleep ==
    /\ upc = "sleep"
    /\ upc' = "poll"
    /\ pace' = [ticks |-> Ticks, slept |-> Ticks * RefreshRate,
                ticked |-> {i \in Ids : dat[i].present /\ dat[i].live}]
    /\ UNCHANGED <<wpc, recent_only, update_interval, cur_time, date,
                   complete, rpc, dat, last_id, updRes, wresult, polls,
                   failure, cycle, everDone, lastFold, lastList, foldSeq>>

\* join_fut: `while !complete.load(Relaxed)`.
RedrawCheck ==
    /\ rpc = "check"
    /\ rpc' = IF complete THEN "exit" ELSE "body"
    /\ UNCHANGED <<wpc, recent_only, update_interval, cur_time, date,
                   complete, upc, dat, last_id, updRes, wresult, polls,
                   failure, cycle, everDone, lastFold, lastList, foldSeq,
                   pace>>

\* join_fut: `m.join().unwrap(); sleep(50 ms)`. No bar is ever added to `m`,
\* so join() returns at once.
RedrawBody ==
    /\ rpc = "body"
    /\ rpc' = "check"
    /\ UNCHANGED <<wpc, recent_only, update_interval, cur_time, date,
                   complete, upc, dat, last_id, updRes, wresult, polls,
                   failure, cycle, everDone, lastFold, lastList, foldSeq,
                   pace>>

\* `Ok(join!(join_fut, update_fut).1??)`: both tasks have ended; the first
\* `?` is for the JoinError of a panicked task, the second for the task's
\* own error.
\* join!(join_fut, update_fut) is ready when both futures are.
UpdateEnded == updRes # Running
BothEnded == rpc = "exit" /\ updRes # Running

JoinReturn ==
    /\ wpc = "joining"
    /\ BothEnded
    /\ wpc' = "returned"
    /\ wresult' = CASE updRes.state = "ok" -> [ok |-> TRUE, val |-> updRes.val]
                    [] updRes.state = "err" -> [ok |-> FALSE, err |-> updRes.err]
                    [] OTHER -> [ok |-> FALSE, err |-> "JoinError"]
    /\ UNCHANGED <<recent_only, update_interval, cur_time, date, complete,
                   upc, rpc, dat, last_id, updRes, polls, failure, cycle,
                   everDone, lastFold, lastList, foldSeq,
                   pace>>

PollTask ==
    \/ \E l \in IdLists : \E st \in [1 .. Len(l) -> Statuses] :
          PollOk(Rows(l, st))
    \/ \E e \in PollErrors : PollErr(e)
    \/ PollPanic
    \/ Sleep

RedrawTask == RedrawCheck \/ RedrawBody

InitWatch ==
    /\ wpc = "init"
    /\ recent_only = FALSE
    /\ update_interval = 0
    /\ cur_time = 0
    /\ date \in DateAssignments
    /\ complete = FALSE
    /\ upc = "idle"
    /\ rpc = "idle"
    /\ dat = [i \in Ids |-> NoBar]
    /\ last_id = NoneId
    /\ updRes = Running
    /\ wresult = [ok |-> FALSE, err |-> "NotReturned"]
    /\ polls = 0
    /\ failure = [some |-> FALSE, err |-> "-", at |-> 0]
    /\ cycle = [inScope |-> 0, pending |-> 0]
    /\ everDone = {}
    /\ lastFold = [i \in Ids |-> "-"]
    /\ lastList = <<>>
    /\ foldSeq = <<>>
    /\ pace = NoPace

(***************************************************************************)
(*                          SESSION CLIENT                                 *)
(* The runs of the tool, one command each: AtCoder::new loads the cookie   *)
(* store from the session file, the command makes its http_req calls, and  *)
(* dropping the client saves the store (Client::new and Drop for Client,   *)
(* http.rs:57-99, are the same code).                                      *)
(***************************************************************************)
MaxRuns == 3
MaxCalls == 2

\* CookieStore::default()
DefaultStoreStale == [h \in Hosts |-> "s0"]
DefaultStore == [h \in Hosts |-> NoCookie]

\* The session file: absent, holding a saved store, or holding text that
\* load_json rejects (left by a save that failed after File::create).
AbsentFile == [state |-> "absent", store |-> DefaultStore]
BrokenFile == [state |-> "broken", store |-> DefaultStore]
SavedFile(store) == [state |-> "saved", store |-> store]

\* A cookie is persistent when its Set-Cookie had Max-Age or Expires: "s0"
\* and "s1" had, "t1" had neither.
SessionCookieValues == {"t1"}
IsPersistent(c) == c \in {"s0", "s1"}

\* CookieStore::save_json writes the unexpired persistent cookies of the
\* store; CookieStore::load_json reads back what was written.
SaveJson(store) ==
    [h \in Hosts |-> IF IsPersistent(store[h]) THEN store[h] ELSE NoCookie]
LoadJson(saved) == saved

\* The responses of the runs: a subset that keeps the runs small.
SessResponses ==
    LET some == {r \in Responses :
                   /\ r.setCookie # BadCookie
                   /\ r.body # "body2"
                   /\ r.status # 500
                   /\ r.statusText # "Gone Away"
                   /\ r.status # 200 => r.setCookie = NoCookie
                   /\ r.location \in {NoLocation,
                                       [kind |-> "rel", path |-> "/login"]}}
    IN  some \cup {[r EXCEPT !.setCookie = c] :
                     r \in {x \in some : x.setCookie \in CookieValues},
                     c \in SessionCookieValues}

\* AtCoder::new: session_file.exists(), read_to_string, load_json.
\* `readOk` is whether the file could be read.
SessNew(readOk) ==
    /\ spc \in {"none", "ended"}
    /\ runs < MaxRuns
    /\ runs' = runs + 1
    /\ hpc = "idle"
    /\ calls' = 0
    /\ writes' = 0
    /\ stderr' = FALSE
    /\ IF file.state = "absent"
         THEN /\ cookie_store' = DefaultStore
              /\ spc' = "open"
              /\ loaded' = "absent"
              /\ cmdResult' = "running"
       ELSE IF file.state = "saved" /\ readOk
         THEN /\ cookie_store' = LoadJson(file.store)
              /\ spc' = "open"
              /\ loaded' = "file"
              /\ cmdResult' = "running"
       ELSE   /\ cookie_store' = DefaultStore
              /\ spc' = "ended"
              /\ loaded' = "-"
              /\ cmdResult' = "err"
    /\ UNCHANGED <<file, drop>>
    /\ UNCHANGED <<hpc, impl, method, url, call, rest_redirects, res, hresult,
                   requests, responses>>

\* clear_session (main.rs:174-180): a run that constructs no client and
\* removes the file.
ClearSession ==
    /\ spc \in {"none", "ended"}
    /\ runs < MaxRuns
    /\ runs' = runs + 1
    /\ file' = AbsentFile
    /\ spc' = "ended"
    /\ cmdResult' = "ok"
    /\ loaded' = "-"
    /\ calls' = 0
    /\ writes' = 0
    /\ stderr' = FALSE
    /\ UNCHANGED <<drop, httpVars>>

\* The command calls http_get or http_post_form.
SessCall(m, p) ==
    /\ spc = "open"
    /\ calls < MaxCalls
    /\ calls' = calls + 1
    /\ HttpReq("AtCoder", m, p)
    /\ UNCHANGED <<spc, file, cmdResult, stderr, writes, runs, loaded, drop>>

\* The call returns to the command, which goes on (with the body, or having
\* handled the error as new_project does for a 404).
SessCallReturn ==
    /\ spc = "open"
    /\ hpc = "done"
    /\ hpc' = "idle"
    /\ requests' = <<>>
    /\ responses' = <<>>
    /\ UNCHANGED <<impl, method, url, call, rest_redirects, cookie_store, res,
                   hresult>>
    /\ UNCHANGED sessVars

\* The command returns: Ok(()) at its end, or early with the error of the
\* call that has just failed (`?`). The client goes out of scope.
SessReturn ==
    /\ spc = "open"
    /\ hpc \in {"idle", "done"}
    /\ cmdResult' = IF hpc = "done" /\ ~hresult.ok THEN "err" ELSE "ok"
    /\ hpc' = "idle"
    /\ requests' = <<>>
    /\ responses' = <<>>
    /\ spc' = "dropping"
    /\ UNCHANGED <<impl, method, url, call, rest_redirects, cookie_store, res,
                   hresult>>
    /\ UNCHANGED <<file, stderr, writes, calls, runs, loaded, drop>>

\* What Drop leaves in the session file: File::create fails and the file is
\* as it was; or it is created and save_json fails; or the store is saved.
WrittenNever(f, store, outcome) == f
Written(f, store, outcome) ==
    CASE outcome = "createFailed" -> f
      [] outcome = "saveFailed" -> BrokenFile
      [] OTHER -> SavedFile(SaveJson(store))

\* impl Drop for AtCoder: the error, if any, goes to stderr and nowhere
\* else.
SessDrop(outcome) ==
    /\ spc = "dropping"
    /\ spc' = "ended"
    /\ writes' = writes + 1
    /\ file' = Written(file, cookie_store, outcome)
    /\ stderr' = (outcome # "saved")
    /\ drop' = [outcome |-> outcome, store |-> cookie_store]
    /\ UNCHANGED <<cmdResult, calls, runs, loaded>>
    /\ UNCHANGED httpVars

InitSess ==
    /\ spc = "none"
    /\ file \in {AbsentFile, BrokenFile, SavedFile([h \in Hosts |->
                     IF h = OriginHost THEN "s0" ELSE NoCookie])}
    /\ cmdResult = "-"
    /\ stderr = FALSE
    /\ writes = 0
    /\ calls = 0
    /\ runs = 0
    /\ loaded = "-"
    /\ drop = [outcome |-> "-", store |-> DefaultStore]

(***************************************************************************)
(*                              BASE64                                     *)
(* Bytes are numbers in 0 .. 255, characters one-character strings.        *)
(***************************************************************************)
\* const BASE64_TBL
BASE64_TBL ==
    <<"A", "B", "C", "D", "E", "F", "G", "H", "I", "J", "K", "L", "M",
      "N", "O", "P", "Q", "R", "S", "T", "U", "V", "W", "X", "Y", "Z",
      "a", "b", "c", "d", "e", "f", "g", "h", "i", "j", "k", "l", "m",
      "n", "o", "p", "q", "r", "s", "t", "u", "v", "w", "x", "y", "z",
      "0", "1", "2", "3", "4", "5", "6", "7", "8", "9", "+", "/">>

\* u8 arithmetic: `x >> k`, `x << k` (the bits shifted out of the byte are
\* lost), `x & (2^k - 1)` and `x | y`.
Pow2(k) == 2 ^ k
Shr(x, k) == x \div Pow2(k)
ShlWide(x, k) == x * Pow2(k)
Shl(x, k) == (x * Pow2(k)) % 256
LowBits(x, k) == x % Pow2(k)

RECURSIVE BitOr(_, _)
BitOr(x, y) ==
    IF x = 0 THEN y
    ELSE IF y = 0 THEN x
    ELSE (IF x % 2 = 1 \/ y % 2 = 1 THEN 1 ELSE 0)
            + 2 * BitOr(x \div 2, y \div 2)

\* BASE64_TBL[n as usize] as char
Tbl(n) == BASE64_TBL[n + 1]

\* The loop of encode from index i (1-based here) on.
RECURSIVE EncodeFrom(_, _)
EncodeFrom(v, i) ==
    IF i > Len(v) THEN <<>>
    ELSE LET c1 == Tbl(Shr(v[i], 2))
             t1 == Shl(LowBits(v[i], 2), 4)
         IN  IF i + 1 > Len(v) THEN <<c1, Tbl(t1), "=", "=">>
             ELSE LET c2 == Tbl(BitOr(t1, Shr(v[i + 1], 4)))
                      t2 == Shl(LowBits(v[i + 1], 4), 2)
                  IN  IF i + 2 > Len(v) THEN <<c1, c2, Tbl(t2), "=">>
                      ELSE <<c1, c2, Tbl(BitOr(t2, Shr(v[i + 2], 6))),
                             Tbl(LowBits(v[i + 2], 6))>>
                             \o EncodeFrom(v, i + 3)

encode(v) == EncodeFrom(v, 1)

\* The table `tbl` of decode: the index of a character of BASE64_TBL, 64
\* for any other.
DecodeTbl(c) ==
    IF \E n \in 1 .. 64 : BASE64_TBL[n] = c
      THEN (CHOOSE n \in 1 .. 64 : BASE64_TBL[n] = c) - 1
      ELSE 64

\* The loop of decode from the character at index i (0-based as in the
\* code) on, with `buf` and `ret` as they are.
RECURSIVE DecodeFrom(_, _, _, _)
DecodeFrom(v, i, buf, ret) ==
    IF i >= Len(v) THEN ret
    ELSE LET ch == v[i + 1]
             c == DecodeTbl(ch)
         IN  IF ch = "=" THEN ret
             ELSE IF c = 64 THEN DecodeFrom(v, i + 1, buf, ret)
             ELSE IF i % 4 = 0 THEN DecodeFrom(v, i + 1, Shl(c, 2), ret)
             ELSE IF i % 4 = 1
               THEN DecodeFrom(v, i + 1, Shl(c, 4),
                               Append(ret, BitOr(buf, Shr(c, 4))))
             ELSE IF i % 4 = 2
               THEN DecodeFrom(v, i + 1, Shl(c, 6),
                               Append(ret, BitOr(buf, Shr(c, 2))))
             ELSE DecodeFrom(v, i + 1, buf, Append(ret, BitOr(buf, c)))

decode(v) == DecodeFrom(v, 0, 0, <<>>)

\* The inputs: every single byte, every sequence of up to MaxBytes of the
\* sample bytes, and the text of test_encode.
MaxBytes == 3
SampleBytes == {0, 65, 85, 170, 255}
ABCDEFG == <<65, 66, 67, 68, 69, 70, 71>>
ByteSeqs ==
    {<<b>> : b \in 0 .. 255}
      \cup UNION {[1 .. n -> SampleBytes] : n \in 0 .. MaxBytes}
      \cup {ABCDEFG}

Encode ==
    /\ bpc = "in"
    /\ bpc' = "encoded"
    /\ encoded' = encode(bytes)
    /\ UNCHANGED <<bytes, decoded>>

Decode ==
    /\ bpc = "encoded"
    /\ bpc' = "decoded"
    /\ decoded' = decode(encoded)
    /\ UNCHANGED <<bytes, encoded>>

InitB64 ==
    /\ bpc = "in"
    /\ bytes \in ByteSeqs
    /\ encoded = <<>>
    /\ decoded = <<>>

InitB64Idle ==
    /\ InitB64
    /\ bytes = <<>>

(***************************************************************************)
(*                           SAMPLE TESTS                                  *)
(* test_samples and test_custom (src/main.rs). An output is a sequence of  *)
(* words, as split_whitespace gives them; a word has its text and, when it *)
(* is a number, its value in units of 1e-7.                                *)
(***************************************************************************)
Word(kind, text, value) == [k |-> kind, t |-> text, v |-> value]

Yes    == Word("w", "Yes", 0)
No     == Word("w", "No", 0)
I1     == Word("i", "1", 10000000)
F1     == Word("f", "1.0", 10000000)
F1a    == Word("f", "1.0000005", 10000005)
F1b    == Word("f", "1.00002", 10000200)
F100   == Word("f", "100.0", 1000000000)
F100a  == Word("f", "100.00005", 1000000500)
F0     == Word("f", "0.0", 0)

\* FLOAT_RE ^\d+\.\d+$ and INTEGER_RE ^\d+$
is_float(w) == w.k = "f"
is_integer(w) == w.k = "i"

\* const ERROR_THRESHOLD: f64 = 1e-6, in units of 1e-7, and 1 / 1e-6.
ErrorThresholdUnits == 10
PerThreshold == 1000000

Abs(x) == IF x < 0 THEN 0 - x ELSE x

\* abs_error < ERROR_THRESHOLD, and rel_error < ERROR_THRESHOLD for
\* rel_error = abs_error / f1.abs(): with f1 = 0 the quotient is infinite, or
\* NaN when abs_error is 0 too, and f64::max drops a NaN.
AbsWithin(f1, f2) == Abs(f1 - f2) < ErrorThresholdUnits
RelWithin(f1, f2) ==
    \/ Abs(f1 - f2) = 0
    \/ f1 # 0 /\ Abs(f1 - f2) <= (Abs(f1) - 1) \div PerThreshold

\* The loop of cmp_output from word i on. max_error is kept as what the
\* final test needs of it: whether it is Some, whether every abs_error so
\* far is below the threshold, and whether every rel_error is;
\* min(max abs, max rel) is below the threshold when one of the two maxima
\* is.
RECURSIVE CmpFrom(_, _, _, _, _, _)
CmpFrom(ws1, ws2, i, some, absOk, relOk) ==
    IF i > Len(ws1)
      THEN [ok |-> (~some \/ absOk \/ relOk), ferr |-> some]
    ELSE LET w1 == ws1[i]
             w2 == ws2[i]
         IN  IF /\ is_float(w1) \/ is_float(w2)
                /\ is_float(w1) \/ is_integer(w1)
                /\ is_float(w2) \/ is_integer(w2)
               THEN CmpFrom(ws1, ws2, i + 1, TRUE,
                            absOk /\ AbsWithin(w1.v, w2.v),
                            relOk /\ RelWithin(w1.v, w2.v))
             ELSE IF w1.t # w2.t THEN [ok |-> FALSE, ferr |-> FALSE]
             ELSE CmpFrom(ws1, ws2, i + 1, some, absOk, relOk)

cmp_output(reference, out) ==
    IF Len(reference) # Len(out) THEN [ok |-> FALSE, ferr |-> FALSE]
    ELSE CmpFrom(reference, out, 1, FALSE, TRUE, TRUE)

\* Result<bool> and Result<()>
OkT(b) == [ok |-> TRUE, val |-> b, err |-> "-"]
ErrT(e) == [ok |-> FALSE, val |-> FALSE, err |-> e]
NoTestResult == [ok |-> FALSE, val |-> FALSE, err |-> "NotReturned"]

\* A printed line: its kind, the sample number it names, its verdict, and
\* the two counts of the last line.
Line(kind, n, verdict, passed, failed) ==
    [t |-> kind, n |-> n, v |-> verdict, passed |-> passed, failed |-> failed]

\* The `for` loop over the cases from the k-th on: the `fails` and the
\* printed lines after it, or the I/O error that ended it (`?` on spawn,
\* write_all or wait_with_output).
RECURSIVE RunCases(_, _, _, _)
RunCases(test_cases, k, fails, out) ==
    IF k > Len(test_cases) THEN [err |-> FALSE, fails |-> fails, out |-> out]
    ELSE LET c == test_cases[k] IN
         IF c.run.kind = "ioError"
           THEN [err |-> TRUE, fails |-> fails, out |-> out]
         ELSE IF c.run.kind = "exitFail"
           THEN RunCases(test_cases, k + 1,
                         Append(fails, [i |-> c.i, exec_success |-> FALSE]),
                         Append(out, Line("test sample", c.i + 1, "FAILED", 0, 0)))
         ELSE IF ~cmp_output(c.run.stdout, c.output).ok
           THEN RunCases(test_cases, k + 1,
                         Append(fails, [i |-> c.i, exec_success |-> TRUE]),
                         Append(out, Line("test sample", c.i + 1, "FAILED", 0, 0)))
         ELSE RunCases(test_cases, k + 1, fails,
                       Append(out, Line("test sample", c.i + 1, "ok", 0, 0)))

\* The section printed for each failed case.
Details(fails) ==
    [k \in 1 .. Len(fails) |->
        Line("---- sample", fails[k].i + 1,
             IF fails[k].exec_success THEN "your output" ELSE "runtime error",
             0, 0)]

\* `if fail_num == 0`
PassedAlways(fails) == TRUE
Passed(fails) == Len(fails) = 0

\* test_samples: what it returns and prints, given what `cargo build` and
\* each run do.
test_samples(build, test_cases) ==
    IF build = "spawnError" THEN [res |-> ErrT("io"), out |-> <<>>]
    ELSE IF build = "failed" THEN [res |-> OkT(FALSE), out |-> <<>>]
    ELSE LET test_case_num == Len(test_cases)
             r == RunCases(test_cases, 1, <<>>,
                           <<Line("running", test_case_num, "", 0, 0)>>)
             fail_num == Len(r.fails)
         IN  IF r.err THEN [res |-> ErrT("io"), out |-> r.out]
             ELSE IF Passed(r.fails)
               THEN [res |-> OkT(TRUE),
                     out |-> r.out \o Details(r.fails)
                               \o <<Line("test_result", 0, "ok", 0, 0)>>]
             ELSE [res |-> OkT(FALSE),
                   out |-> r.out \o Details(r.fails)
                             \o <<Line("test result", 0, "FAILED",
                                       test_case_num - fail_num, fail_num)>>]

\* test_custom: ensure!(build_status.success(), "Build failed"), then one
\* run whose outcome is printed.
test_custom(build, run) ==
    IF build = "spawnError" THEN [res |-> ErrT("io"), out |-> <<>>]
    ELSE IF build = "failed" THEN [res |-> ErrT("Build failed"), out |-> <<>>]
    ELSE IF run.kind = "ioError"
      THEN [res |-> ErrT("io"), out |-> <<Line("input test case", 0, "", 0, 0)>>]
    ELSE [res |-> OkT(TRUE),
          out |-> <<Line("input test case", 0, "", 0, 0),
                    Line("custom", 0,
                         IF run.kind = "exitFail" THEN "runtime error"
                         ELSE "your output", 0, 0)>>]

\* The cases `test` hands to test_samples (main.rs:237-243): those whose
\* number is in case_num, or all when case_num is empty, each with its index.
RECURSIVE Selected(_, _, _)
Selected(all, case_num, i) ==
    IF i >= Len(all) THEN <<>>
    ELSE (IF case_num = {} \/ (i + 1) \in case_num
            THEN <<[i |-> i, output |-> all[i + 1].output, run |-> all[i + 1].run]>>
            ELSE <<>>)
           \o Selected(all, case_num, i + 1)

\* The inputs.
MaxCases == 2
Builds == {"ok", "failed", "spawnError"}
ExpectedOutputs == {<<Yes>>, <<F1, F100>>}
Stdouts == {<<Yes>>, <<No>>, <<>>, <<I1, F100a>>, <<F1a, F100a>>, <<F1b, F100>>}
CustomRuns ==
    [kind : {"exit0", "exitFail"}, stdout : {<<>>, <<Yes>>}]
      \cup {[kind |-> "ioError", stdout |-> <<>>]}
Runs == [kind : {"exit0"}, stdout : Stdouts] \cup CustomRuns
CaseLists ==
    UNION {[1 .. n -> [output : ExpectedOutputs, run : Runs]] : n \in 0 .. MaxCases}
Submits == {"no", "yes", "yesFails"}
TestArgs ==
    {[mode |-> "samples", build |-> b, all |-> l, case_num |-> cn,
      run |-> [kind |-> "exit0", stdout |-> <<>>], submit |-> sb] :
        b \in Builds, l \in CaseLists, cn \in {{}, {1}, {MaxCases}},
        sb \in Submits}
      \cup
    {[mode |-> "custom", build |-> b, all |-> <<>>, case_num |-> {},
      run |-> r, submit |-> "no"] : b \in Builds, r \in CustomRuns}

\* The inputs of the `submit` command: its flags, what the build and the
\* runs of the samples do, whether the source can be read and the submit
\* request succeeds, and what the tracking session returns.
SubmitCaseLists == {l \in CaseLists : Len(l) <= 1}
SubmitOutcomes == {"ok", "fails", "noSource"}
WatchOutcomes == {"none", "some", "err"}
SubmitArgs ==
    {[mode |-> "submit", build |-> b, all |-> l, skip_test |-> sk,
      force |-> f, submit |-> sb, watch |-> w] :
        b \in Builds, l \in SubmitCaseLists, sk \in BOOLEAN, f \in BOOLEAN,
        sb \in SubmitOutcomes, w \in WatchOutcomes}

\* `for &cn in opt.case_num.iter()`: every number names a sample.
CaseNumsFound(case_num, test_cases) ==
    \A cn \in case_num : ~(cn = 0 \/ cn > Len(test_cases))

\* `if passed && opt.submit` (main.rs:246)
TestSubmits(passed, submit) == passed /\ submit

\* `test` with opt.custom unset, from the case numbers on: the selection,
\* test_samples, and the submission when it passed and opt.submit is set.
TestSamples ==
    /\ tpc = "start"
    /\ targs.mode = "samples"
    /\ CaseNumsFound(targs.case_num, targs.all)
    /\ LET r == test_samples(targs.build, Selected(targs.all, targs.case_num, 0))
           passed == r.res.ok /\ r.res.val
       IN  /\ tres' = r.res
           /\ tout' = r.out
           /\ tsubmit' = TestSubmits(passed, targs.submit # "no")
           /\ tcmd' = IF ~r.res.ok THEN r.res
                      ELSE IF passed /\ targs.submit = "yesFails" THEN ErrT("submit")
                      ELSE OkT(TRUE)
    /\ tpc' = "done"
    /\ UNCHANGED <<targs, ttrack>>

\* `test` with a case number that names no sample: bail!.
TestCaseNotFound ==
    /\ tpc = "start"
    /\ targs.mode = "samples"
    /\ ~CaseNumsFound(targs.case_num, targs.all)
    /\ tcmd' = ErrT("Case num is not found")
    /\ tpc' = "done"
    /\ UNCHANGED <<targs, tres, tout, tsubmit, ttrack>>

\* `test` with opt.custom set: return test_custom(..).
TestCustom ==
    /\ tpc = "start"
    /\ targs.mode = "custom"
    /\ LET r == test_custom(targs.build, targs.run)
       IN  tres' = r.res /\ tout' = r.out /\ tcmd' = r.res
    /\ tpc' = "done"
    /\ UNCHANGED <<targs, tsubmit, ttrack>>

\* `if !test_passed && !opt.force { .. return Ok(()) }` (main.rs:601-604)
GateAlwaysOpen(test_passed, force) == TRUE
GateOpen(test_passed, force) == test_passed \/ force

NoTrack == [started |-> FALSE, recent_only |-> FALSE, detail |-> FALSE]

\* The `submit` command from the sample tests on: the tests unless
\* --skip-test, the gate, the source, the submit request, the recent-only
\* tracking session and the detail of the submission it returned.
SubmitCmd ==
    /\ tpc = "start"
    /\ targs.mode = "submit"
    /\ tpc' = "done"
    /\ LET r == IF targs.skip_test THEN [res |-> NoTestResult, out |-> <<>>]
                ELSE test_samples(targs.build, Selected(targs.all, {}, 0))
           failed == ~targs.skip_test /\ ~r.res.ok
           test_passed == targs.skip_test \/ (r.res.ok /\ r.res.val)
       IN  /\ tres' = r.res
           /\ IF failed
                THEN tcmd' = r.res /\ tout' = r.out /\ tsubmit' = FALSE
                     /\ ttrack' = NoTrack
              ELSE IF ~GateOpen(test_passed, targs.force)
                THEN /\ tcmd' = OkT(TRUE)
                     /\ tout' = Append(r.out, Line("Did not submit", 0, "", 0, 0))
                     /\ tsubmit' = FALSE
                     /\ ttrack' = NoTrack
              ELSE IF targs.submit = "noSource"
                THEN tcmd' = ErrT("source") /\ tout' = r.out
                     /\ tsubmit' = FALSE /\ ttrack' = NoTrack
              ELSE IF targs.submit = "fails"
                THEN tcmd' = ErrT("submit") /\ tout' = r.out
                     /\ tsubmit' = TRUE /\ ttrack' = NoTrack
              ELSE /\ tsubmit' = TRUE
                   /\ tout' = Append(r.out, Line("Fetching", 0, "", 0, 0))
                   /\ ttrack' = [started |-> TRUE, recent_only |-> TRUE,
                                 detail |-> targs.watch = "some"]
                   /\ tcmd' = IF targs.watch = "err" THEN ErrT("watch")
                              ELSE OkT(TRUE)
    /\ UNCHANGED targs

InitTest ==
    /\ tpc = "start"
    /\ targs \in TestArgs \cup SubmitArgs
    /\ tout = <<>>
    /\ tres = NoTestResult
    /\ tcmd = NoTestResult
    /\ tsubmit = FALSE
    /\ ttrack = NoTrack

InitTestIdle ==
    /\ tpc = "start"
    /\ targs = [mode |-> "custom", build |-> "ok", all |-> <<>>,
                case_num |-> {}, run |-> [kind |-> "exit0", stdout |-> <<>>],
                submit |-> "no"]
    /\ tout = <<>>
    /\ tres = NoTestResult
    /\ tcmd = NoTestResult
    /\ tsubmit = FALSE
    /\ ttrack = NoTrack

(***************************************************************************)
(*              TWO INVOCATIONS SHARING THE SESSION FILE                   *)
(* Two runs of the tool at the same time, with one session file. Each does *)
(* AtCoder::new, absorbs cookies, and is dropped: File::create truncates   *)
(* the file, and save_json writes the cookies, a line each, through the    *)
(* handle it was given. Nothing locks the file.                            *)
(***************************************************************************)
Invocations == {1, 2}
ShareCookies == {"a", "b"}

\* A gap left in the file by a write beyond its end.
Hole == "hole"

\* The lines save_json writes for a store: "a" before "b".
StoreLines(store) ==
    (IF "a" \in store THEN <<"a">> ELSE <<>>)
      \o (IF "b" \in store THEN <<"b">> ELSE <<>>)

\* write(2) of one line at the offset pos of the handle: the line replaces
\* what is there, and a write beyond the end leaves a gap.
RECURSIVE WriteAt(_, _, _)
WriteAt(lines, pos, line) ==
    IF pos < Len(lines) THEN [lines EXCEPT ![pos + 1] = line]
    ELSE IF pos = Len(lines) THEN Append(lines, line)
    ELSE WriteAt(Append(lines, Hole), pos, line)

AbsentDisk == [exists |-> FALSE, lines |-> <<>>]

\* AtCoder::new (atcoder.rs:250-268): the store is what the file holds now,
\* if it exists; text that load_json cannot read fails the invocation.
ShareNew(i) ==
    /\ ipc[i] = "none"
    /\ IF \E k \in 1 .. Len(disk.lines) : disk.lines[k] = Hole
         THEN /\ ipc' = [ipc EXCEPT ![i] = "failed"]
              /\ UNCHANGED istore
         ELSE /\ ipc' = [ipc EXCEPT ![i] = "open"]
              /\ istore' = [istore EXCEPT
                              ![i] = {disk.lines[k] : k \in 1 .. Len(disk.lines)}]
    /\ UNCHANGED <<iqueue, ipos, disk, tornDown>>

\* A response sets the cookie c (store_response_cookies).
ShareAbsorb(i, c) ==
    /\ ipc[i] = "open"
    /\ c \notin istore[i]
    /\ istore' = [istore EXCEPT ![i] = @ \cup {c}]
    /\ UNCHANGED <<ipc, iqueue, ipos, disk, tornDown>>

\* Drop, first step: File::create opens the file and truncates it
\* (atcoder.rs:229-230).
ShareCreate(i) ==
    /\ ipc[i] = "open"
    /\ ipc' = [ipc EXCEPT ![i] = "saving"]
    /\ disk' = [exists |-> TRUE, lines |-> <<>>]
    /\ ipos' = [ipos EXCEPT ![i] = 0]
    /\ iqueue' = [iqueue EXCEPT ![i] = StoreLines(istore[i])]
    /\ UNCHANGED <<istore, tornDown>>

\* Drop, save_json (atcoder.rs:232-236): the next line is written.
ShareWrite(i) ==
    /\ ipc[i] = "saving"
    /\ iqueue[i] # <<>>
    /\ disk' = [disk EXCEPT !.lines = WriteAt(@, ipos[i], Head(iqueue[i]))]
    /\ ipos' = [ipos EXCEPT ![i] = @ + 1]
    /\ iqueue' = [iqueue EXCEPT ![i] = Tail(@)]
    /\ UNCHANGED <<ipc, istore, tornDown>>

\* Drop ends: the handle is closed.
ShareClose(i) ==
    /\ ipc[i] = "saving"
    /\ iqueue[i] = <<>>
    /\ ipc' = [ipc EXCEPT ![i] = "ended"]
    /\ tornDown' = Append(tornDown, i)
    /\ UNCHANGED <<istore, iqueue, ipos, disk>>

InitShare ==
    /\ ipc = [i \in Invocations |-> "none"]
    /\ istore = [i \in Invocations |-> {}]
    /\ iqueue = [i \in Invocations |-> <<>>]
    /\ ipos = [i \in Invocations |-> 0]
    /\ disk \in {AbsentDisk} \cup
                {[exists |-> TRUE, lines |-> StoreLines(st)] :
                    st \in SUBSET ShareCookies}
    /\ tornDown = <<>>

InitShareIdle ==
    /\ ipc = [i \in Invocations |-> "none"]
    /\ istore = [i \in Invocations |-> {}]
    /\ iqueue = [i \in Invocations |-> <<>>]
    /\ ipos = [i \in Invocations |-> 0]
    /\ disk = AbsentDisk
    /\ tornDown = <<>>

(***************************************************************************)
(*                          SPECIFICATIONS                                 *)
(***************************************************************************)
InitParseIdle ==
    /\ token = <<>>
    /\ parsed = NotParsed

InitHttpIdle ==
    /\ InitHttp
    /\ cookie_store = [h \in Hosts |-> NoCookie]

InitWatchIdle ==
    /\ InitWatch
    /\ date = [i \in Ids |-> 10]

InitSessIdle ==
    /\ InitSess
    /\ file = AbsentFile

NextParse == Parse /\ UNCHANGED notParse

InitSpecParse == InitShareIdle /\ InitTestIdle /\ InitB64Idle /\ InitHttpIdle /\ InitParse /\ InitWatchIdle /\ InitSessIdle

SpecParse == InitSpecParse /\ [][NextParse]_vars

NextHttp ==
    \/ \E i \in {"AtCoder", "Client"}, m \in Methods, p \in Paths :
          HttpReq(i, m, p) /\ UNCHANGED notHttp
    \/ HttpSend /\ UNCHANGED notHttp
    \/ \E r \in Responses : HttpHandle(r) /\ UNCHANGED notHttp

InitSpecHttp == InitShareIdle /\ InitTestIdle /\ InitB64Idle /\ InitHttp /\ InitParseIdle /\ InitWatchIdle /\ InitSessIdle

SpecHttp == InitSpecHttp /\ [][NextHttp]_vars

NextWatch ==
    \/ \E recent \in BOOLEAN, interval \in UpdateIntervals :
          WatchStart(recent, interval) /\ UNCHANGED notWatch
    \/ WatchConfigError /\ UNCHANGED notWatch
    \/ PollTask /\ UNCHANGED notWatch
    \/ RedrawTask /\ UNCHANGED notWatch
    \/ JoinReturn /\ UNCHANGED notWatch

NextSess ==
    \/ \E readOk \in BOOLEAN : SessNew(readOk) /\ UNCHANGED notSess
    \/ ClearSession /\ UNCHANGED notSess
    \/ \E m \in Methods, p \in Paths : SessCall(m, p) /\ UNCHANGED notSess
    \/ HttpSend /\ UNCHANGED <<notSess, sessVars>>
    \/ \E r \in SessResponses :
          HttpHandle(r) /\ UNCHANGED <<notSess, sessVars>>
    \/ SessCallReturn /\ UNCHANGED notSess
    \/ SessReturn /\ UNCHANGED notSess
    \/ \E outcome \in {"saved", "createFailed", "saveFailed"} :
          SessDrop(outcome) /\ UNCHANGED notSess

InitSpecSess ==
    /\ InitShareIdle
    /\ InitTestIdle
    /\ InitB64Idle
    /\ InitHttpIdle
    /\ InitParseIdle
    /\ InitWatchIdle
    /\ InitSess

SpecSess == InitSpecSess /\ [][NextSess]_vars

NextB64 ==
    \/ Encode /\ UNCHANGED notB64
    \/ Decode /\ UNCHANGED notB64

InitSpecB64 ==
    /\ InitShareIdle
    /\ InitTestIdle
    /\ InitB64
    /\ InitHttpIdle
    /\ InitParseIdle
    /\ InitWatchIdle
    /\ InitSessIdle

SpecB64 == InitSpecB64 /\ [][NextB64]_vars

NextTest ==
    \/ TestSamples /\ UNCHANGED notTest
    \/ TestCaseNotFound /\ UNCHANGED notTest
    \/ TestCustom /\ UNCHANGED notTest
    \/ SubmitCmd /\ UNCHANGED notTest

NextShare ==
    \/ \E i \in Invocations : ShareNew(i) /\ UNCHANGED notShare
    \/ \E i \in Invocations, c \in ShareCookies :
          ShareAbsorb(i, c) /\ UNCHANGED notShare
    \/ \E i \in Invocations : ShareCreate(i) /\ UNCHANGED notShare
    \/ \E i \in Invocations : ShareWrite(i) /\ UNCHANGED notShare
    \/ \E i \in Invocations : ShareClose(i) /\ UNCHANGED notShare

InitSpecShare ==
    /\ InitShare
    /\ InitTestIdle
    /\ InitB64Idle
    /\ InitHttpIdle
    /\ InitParseIdle
    /\ InitWatchIdle
    /\ InitSessIdle

SpecShare == InitSpecShare /\ [][NextShare]_vars

InitSpecTest ==
    /\ InitShareIdle
    /\ InitTest
    /\ InitB64Idle
    /\ InitHttpIdle
    /\ InitParseIdle
    /\ InitWatchIdle
    /\ InitSessIdle

SpecTest == InitSpecTest /\ [][NextTest]_vars

InitSpecWatch == InitShareIdle /\ InitTestIdle /\ InitB64Idle /\ InitHttpIdle /\ InitParseIdle /\ InitWatch /\ InitSessIdle

SpecWatch == InitSpecWatch /\ [][NextWatch]_vars

\* The tokio runtime runs every spawned task that can run, and polls the
\* join! of the caller.
SpecWatchFair ==
    /\ SpecWatch
    /\ WF_vars(PollTask /\ UNCHANGED notWatch)
    /\ WF_vars(RedrawTask /\ UNCHANGED notWatch)
    /\ WF_vars(JoinReturn /\ UNCHANGED notWatch)

(***************************************************************************)
(*                      CLAIMS ON THE GRAMMAR                              *)
(* The reference grammar is written as a scanner that reads the token one  *)
(* character at a time, with a table for the result codes.                 *)
(***************************************************************************)

CodeTable ==
    {<<<<"A", "C">>, "Accepted">>, <<<<"W", "A">>, "WrongAnswer">>,
     <<<<"T", "L", "E">>, "TimeLimitExceeded">>,
     <<<<"M", "L", "E">>, "MemoryLimitExceeded">>,
     <<<<"O", "L", "E">>, "OutputLimitExceeded">>,
     <<<<"R", "E">>, "RuntimeError">>, <<<<"C", "E">>, "CompileError">>,
     <<<<"I", "E">>, "InternalError">>}

RefCode(s) ==
    IF \E p \in CodeTable : p[1] = s
      THEN Known((CHOOSE p \in CodeTable : p[1] = s)[2])
      ELSE Unknown(s)

NoScan == [matched |-> FALSE, cur |-> 0, total |-> 0, tail |-> <<>>]

RefDigit(ch) ==
    CASE ch = "0" -> 0 [] ch = "1" -> 1 [] ch = "2" -> 2 [] ch = "3" -> 3
      [] ch = "4" -> 4 [] ch = "5" -> 5 [] ch = "6" -> 6 [] ch = "7" -> 7
      [] ch = "8" -> 8 [] OTHER -> 9

\* Reads `count gap / gap count gap tail`; s is what is left to read.
RECURSIVE Scan(_, _, _, _)
Scan(s, phase, c, t) ==
    IF s = <<>>
      THEN IF phase \in {"count2", "gap3"}
             THEN [matched |-> TRUE, cur |-> c, total |-> t, tail |-> <<>>]
             ELSE NoScan
    ELSE
      LET ch == s[1]
          rest == Tail(s)
      IN
      CASE phase = "start" ->
             IF IsDigit(ch) THEN Scan(rest, "count1", RefDigit(ch), t)
             ELSE NoScan
        [] phase = "count1" ->
             IF IsDigit(ch) THEN Scan(rest, "count1", 10 * c + RefDigit(ch), t)
             ELSE IF ch = " " THEN Scan(rest, "gap1", c, t)
             ELSE IF ch = "/" THEN Scan(rest, "gap2", c, t)
             ELSE NoScan
        [] phase = "gap1" ->
             IF ch = " " THEN Scan(rest, "gap1", c, t)
             ELSE IF ch = "/" THEN Scan(rest, "gap2", c, t)
             ELSE NoScan
        [] phase = "gap2" ->
             IF ch = " " THEN Scan(rest, "gap2", c, t)
             ELSE IF IsDigit(ch) THEN Scan(rest, "count2", c, RefDigit(ch))
             ELSE NoScan
        [] phase = "count2" ->
             IF IsDigit(ch) THEN Scan(rest, "count2", c, 10 * t + RefDigit(ch))
             ELSE IF ch = " " THEN Scan(rest, "gap3", c, t)
             ELSE [matched |-> TRUE, cur |-> c, total |-> t, tail |-> s]
        [] OTHER ->
             IF ch = " " THEN Scan(rest, "gap3", c, t)
             ELSE [matched |-> TRUE, cur |-> c, total |-> t, tail |-> s]

\* s without the spaces at its two ends.
Stripped(s) ==
    LET inked == {k \in 1 .. Len(s) : s[k] # " "} IN
    IF inked = {} THEN <<>>
    ELSE SubSeq(s, CHOOSE a \in inked : \A k \in inked : a <= k,
                   CHOOSE b \in inked : \A k \in inked : k <= b)

WJ == <<"W", "J">>
WR == <<"W", "R">>

\* The grammar as C7 states it: no token fails.
RefParseClaimed(s) ==
    IF s = WJ THEN Waiting("WaitingForJudge")
    ELSE IF s = WR THEN Waiting("WaitingForRejudge")
    ELSE
      LET m == Scan(s, "start", 0, 0) IN
      IF m.matched
        THEN IF Stripped(m.tail) = <<>>
               THEN Progress(m.cur, m.total, NoneCode)
               ELSE Progress(m.cur, m.total, SomeCode(RefCode(Stripped(m.tail))))
        ELSE Done(RefCode(s))

\* The trailing text of a count/count token that is itself no result code:
\* "WJ", "WR" or another count/count.
NotAnOutcome(tl) ==
    tl \in {WJ, WR} \/ Scan(tl, "start", 0, 0).matched

\* The grammar with the one change C9 describes: a count/count token whose
\* trailing text is not an outcome has no value (the parse panics).
RefParse(s) ==
    LET m == Scan(s, "start", 0, 0) IN
    IF s \notin {WJ, WR} /\ m.matched /\ NotAnOutcome(Stripped(m.tail))
      THEN Panic
      ELSE RefParseClaimed(s)

Str_6_9_TLE == <<"6", "/", "9", " ", "T", "L", "E">>

\* The examples C7 and the specification name.
Examples ==
    /\ token = <<"A", "C">> => parsed = Done(Known("Accepted"))
    /\ token = WJ => parsed = Waiting("WaitingForJudge")
    /\ token = WR => parsed = Waiting("WaitingForRejudge")
    /\ token = Str_6_9_TLE
          => parsed = Progress(6, 9, SomeCode(Known("TimeLimitExceeded")))
    /\ token = <<"3", "/", "3">> => parsed = Progress(3, 3, NoneCode)
    /\ token = <<"Z", "Z">> => parsed = Done(Unknown(<<"Z", "Z">>))
    /\ token = <<>> => parsed = Done(Unknown(<<>>))

\* C7 as claimed: from_str agrees with the reference grammar on every token,
\* and every token that is neither WJ, WR, count/count nor a known code gives
\* Done(Unknown(token)) rather than failing.
C7_GrammarAsClaimed ==
    parsed # NotParsed => parsed = RefParseClaimed(token) /\ Examples

\* C7 as amended: from_str agrees with the reference grammar on every token
\* except the count/count tokens whose trailing text is "WJ", "WR" or another
\* count/count: on those it panics and returns nothing.
C7_GrammarExceptNested ==
    parsed # NotParsed => parsed = RefParse(token) /\ Examples

\* C7 witness: "6/9 TLE" has been parsed to Progress(6, 9, Some(TLE)).
C7_Witness ==
    /\ token = Str_6_9_TLE
    /\ parsed = Progress(6, 9, SomeCode(Known("TimeLimitExceeded")))

C9_SingleLevelNesting ==
    LET m == Scan(token, "start", 0, 0)
        tl == Stripped(m.tail)
    IN  /\ (parsed.tag = "Progress" /\ parsed.code.some)
              => /\ m.matched
                 /\ ~NotAnOutcome(tl)
                 /\ tl # <<>>
                 /\ parsed.code.v = RefCode(tl)
        /\ (parsed.tag = "Progress" /\ ~parsed.code.some)
              => m.matched /\ tl = <<>>
        /\ (parsed # NotParsed /\ token \notin {WJ, WR} /\ m.matched
              /\ NotAnOutcome(tl))
              => parsed = Panic

\* C9 witness: "6/9 6/9 WJ", a count/count nested twice, has panicked.
C9_Witness ==
    /\ token = <<"6", "/", "9", " ", "6", "/", "9", " ", "W", "J">>
    /\ parsed = Panic

(***************************************************************************)
(*                      CLAIMS ON THE TRANSPORT                            *)
(***************************************************************************)

\* A response that makes the loop go on: a well-formed 3xx whose Location
\* resolves to the origin host.
SameHostRedirect(s) ==
    s.status = 302 /\ s.wellFormed /\ s.target = OriginHost

CrossHostRedirect(s) ==
    s.status = 302 /\ s.wellFormed /\ s.target = OtherHost

LastResponse == responses[Len(responses)]

\* C1: redirect budget. A call sends at most 6 requests; when the response
\* that ends it is a (well-formed) 2xx, which can only follow k <= 5
\* same-host redirects, the call returns that response's body; a same-host
\* redirect ends the call only as the 6th response, and a 6th response that
\* is a 3xx makes the call fail with "too many redirects", with no 7th
\* request.
C1_RedirectBudget ==
    /\ Len(requests) <= 6
    /\ hpc = "done" =>
         /\ Len(responses) <= 6
         /\ Len(requests) = Len(responses)
         /\ \A i \in 1 .. Len(responses) - 1 : SameHostRedirect(responses[i])
         /\ (LastResponse.status = 200 /\ LastResponse.wellFormed)
               => hresult = Ok(res.body)
         /\ SameHostRedirect(LastResponse) => Len(responses) = 6
         /\ (Len(responses) = 6 /\ LastResponse.status = 302
               /\ LastResponse.wellFormed)
               => hresult = Err([kind |-> "TooManyRedirects"])

\* C1 witness: five same-host redirects and then a 2xx whose body is returned.
C1_Witness ==
    /\ hpc = "done"
    /\ Len(responses) = 6
    /\ LastResponse.status = 200
    /\ hresult = Ok("body2")

NoRequestLeavesOrigin ==
    \A i \in 1 .. Len(requests) : requests[i].url.host = OriginHost

\* C2 as claimed: a 3xx whose Location resolves to another host makes the
\* call fail with the cross-host error, after any number (0..5) of same-host
\* redirects, and no request goes to that host.
C2_CrossHostAlways ==
    /\ NoRequestLeavesOrigin
    /\ (hpc = "done" /\ CrossHostRedirect(LastResponse))
          => hresult = Err([kind |-> "CrossHost"])

\* C2 as amended: no request ever goes to another host; a cross-host 3xx
\* ends the call, with the cross-host error when fewer than 5 same-host
\* redirects preceded it and with "too many redirects" when it is the 6th
\* response (the budget is checked before the Location is looked at).
C2_CrossHostUnlessExhausted ==
    /\ NoRequestLeavesOrigin
    /\ (hpc # "idle" /\ Len(responses) > 0 /\ CrossHostRedirect(LastResponse))
          => /\ hpc = "done"
             /\ Len(responses) <= 5 => hresult = Err([kind |-> "CrossHost"])
             /\ Len(responses) = 6
                   => hresult = Err([kind |-> "TooManyRedirects"])

\* C2 witness: a cross-host redirect arrives after four same-host ones.
C2_Witness ==
    /\ hpc = "done"
    /\ Len(responses) = 5
    /\ CrossHostRedirect(LastResponse)
    /\ hresult = Err([kind |-> "CrossHost"])


(***************************************************************************)
(*                      CLAIMS ON THE TRACKER                              *)
(***************************************************************************)
Tracked == {i \in Ids : dat[i].present}

MaxId(S) == CHOOSE i \in S : \A j \in S : j <= i

PollFailed == upc \in {"failed", "panicked"}

\* C3: in recent-only mode the polling loop goes on to sleep only after a
\* cycle with an in-scope submission that is not Done, and ends on the first
\* cycle in which every in-scope submission is Done: it sets the completion
\* flag, its output is Ok(last_id), it polls no more and changes no bar, and
\* the call returns that output.
C3_RecentOnlyTermination ==
    /\ [](recent_only /\ upc = "sleep" => cycle.pending > 0)
    /\ [](upc = "exit" =>
            /\ recent_only
            /\ cycle.pending = 0
            /\ complete
            /\ updRes = OkRes(last_id))
    /\ [][upc = "exit" => upc' = "exit" /\ polls' = polls /\ dat' = dat]_vars
    /\ (upc = "exit") ~>
          (wpc = "returned" /\ wresult = [ok |-> TRUE, val |-> last_id])

C3_Witness ==
    /\ wpc = "returned"
    /\ wresult.ok
    /\ upc = "exit"
    /\ polls >= 2
    /\ cycle.inScope >= 2
    /\ \A i \in Tracked : i \in everDone /\ lastFold[i] = "Done"

\* C4 (as claimed): the identifier a recent-only session returns is the
\* highest identifier among the submissions it tracked, and none only when it
\* tracked nothing.
C4_ReturnsMaxId ==
    (wpc = "returned" /\ wresult.ok) =>
        wresult.val = IF Tracked = {} THEN NoneId ELSE SomeId(MaxId(Tracked))

\* C5 (as claimed): once a poll has failed, the redraw task exits and the
\* call returns a failure.
C5_PollFailureReturns ==
    PollFailed ~> (rpc = "exit" /\ wpc = "returned" /\ ~wresult.ok)

C10_IdempotentFinalization ==
    /\ [](\A i \in Ids :
            /\ dat[i].finishes = IF i \in everDone THEN 1 ELSE 0
            /\ dat[i].live = (dat[i].present /\ i \notin everDone)
            /\ i \in everDone => dat[i].present)
    /\ [][\A i \in Ids :
            /\ (i \in everDone' /\ i \notin everDone) =>
                  /\ dat'[i].finishes = 1
                  /\ dat'[i].style = "finish"
                  /\ ~dat'[i].live
            /\ (polls' # polls /\ lastFold'[i] = "DoneAgain") =>
                  dat'[i] = dat[i]]_vars

C10_Witness ==
    \E i \in Ids :
        /\ lastFold[i] = "DoneAgain"
        /\ dat[i].finishes = 1
        /\ dat[i].style = "finish"

(***************************************************************************)
(*                 CLAIMS ON THE TRANSPORT, CONTINUED                      *)
(***************************************************************************)
LastRequest == requests[Len(requests)]

\* C11: a response whose status is neither 2xx nor 3xx ends the call with a
\* StatusError that carries the URL requested, the code and the reason
\* phrase received; no body is returned and no further request is made, and
\* status() is the received code, so it is 404 exactly for a 404 response.
C11_StatusError ==
    (hpc # "idle" /\ Len(responses) > 0 /\ res.kind = "http"
        /\ (res.status < 200 \/ res.status > 399)) =>
        /\ hpc = "done"
        /\ Len(requests) = Len(responses)
        /\ ~hresult.ok
        /\ hresult.err = [kind |-> "StatusError", url |-> LastRequest.url,
                          status |-> res.status,
                          status_text |-> res.statusText]
        /\ Status(hresult.err) = res.status
        /\ (Status(hresult.err) = 404) <=> (res.status = 404)

C11_Witness ==
    /\ hpc = "done"
    /\ Len(responses) = 3
    /\ res.status = 404
    /\ res.statusText = "Gone Away"
    /\ LastRequest.url.path = "/login"
    /\ ~hresult.ok
    /\ Status(hresult.err) = 404

(***************************************************************************)
(*                    CLAIMS ON THE SESSION CLIENT                         *)
(***************************************************************************)
Constructed == loaded # "-"

\* C12: a run that constructed a client and has ended has run Drop exactly
\* once, when the command returned, with no call in flight and no change of
\* the store after it; a successful save leaves the store it ran on in the
\* file, a failed one is reported on stderr; the command's result is the
\* same after Drop as before, whether it is Ok or Err.
C12_SaveLifecycle ==
    /\ [](/\ writes <= 1
          /\ spc \in {"open", "dropping"} => writes = 0
          /\ (spc = "ended" /\ Constructed) =>
                /\ writes = 1
                /\ cmdResult \in {"ok", "err"}
                /\ drop.store = cookie_store
                /\ drop.outcome = "saved" =>
                      file = SavedFile(SaveJson(cookie_store)) /\ ~stderr
                /\ drop.outcome # "saved" => stderr)
    /\ [][/\ writes' = writes + 1 =>
                /\ spc = "dropping"
                /\ hpc = "idle"
                /\ cmdResult' = cmdResult
                /\ cookie_store' = cookie_store
          /\ (writes = 1 /\ writes' = 1) => cookie_store' = cookie_store
          /\ file' # file =>
                \/ writes' = writes + 1
                \/ runs' = runs + 1 /\ ~Constructed']_vars

C12_Witness ==
    /\ spc = "ended"
    /\ Constructed
    /\ cmdResult = "err"
    /\ calls = 2
    /\ writes = 1
    /\ drop.outcome = "saved"
    /\ file.store[OriginHost] = "s1"

\* C13 (as claimed): a client constructed on the file that the previous
\* client saved has, for every URL, the cookies that client had when it was
\* dropped.
C13_CookieRoundTrip ==
    (spc = "open" /\ loaded = "file" /\ calls = 0 /\ drop.outcome = "saved") =>
        \A u \in Urls : CookieHeader(cookie_store, u) = CookieHeader(drop.store, u)

\* C14: when the session file is absent, AtCoder::new succeeds with an empty
\* store, and the first request of the run has no Cookie header.
C14_AbsentRecord ==
    /\ []((spc = "open" /\ loaded = "absent") =>
            /\ calls = 0 => cookie_store = DefaultStore
            /\ (calls = 1 /\ Len(requests) >= 1) => requests[1].cookie = None)
    /\ [][(runs' = runs + 1 /\ file.state = "absent") =>
            /\ cmdResult' # "err"
            /\ Constructed' =>
                  /\ spc' = "open"
                  /\ loaded' = "absent"
                  /\ \A u \in Urls : CookieHeader(cookie_store', u) = None]_vars

C14_Witness ==
    /\ runs = 3
    /\ spc = "open"
    /\ loaded = "absent"
    /\ drop.outcome = "saved"
    /\ drop.store[OriginHost] = "s1"
    /\ calls = 1
    /\ Len(requests) = 1
    /\ requests[1].cookie = None

(***************************************************************************)
(*                 CLAIMS ON THE TRACKER, CONTINUED                        *)
(***************************************************************************)
Continuous == wpc # "init" /\ upc # "idle" /\ ~recent_only

\* C15: with recent_only = false the polling task never leaves its loop by
\* itself and the call does not return; a poll that succeeds, whatever it
\* reports, leaves the completion flag clear and is followed by the tick
\* loop, and the tick loop by the next poll.
C15_ContinuousMode ==
    /\ [](Continuous =>
            /\ upc # "exit"
            /\ ~complete
            /\ wpc = "joining"
            /\ updRes.state # "ok")
    /\ [][(Continuous /\ polls' = polls + 1 /\ ~failure'.some) =>
            upc' = "sleep" /\ ~complete']_vars
    /\ (Continuous /\ upc = "sleep") ~> (upc = "poll")

C15_Witness ==
    /\ Continuous
    /\ polls >= 3
    /\ upc = "poll"
    /\ Tracked = Ids
    /\ everDone = Ids
    /\ cycle.inScope = 0

(***************************************************************************)
(*                         CLAIMS ON BASE64                                *)
(***************************************************************************)
QUJDREVGRw == <<"Q", "U", "J", "D", "R", "E", "V", "G", "R", "w", "=", "=">>

\* C16: decode(encode(v)) = v for every byte sequence v; the encoding has
\* four characters for every three bytes begun; encode("ABCDEFG") is
\* "QUJDREVGRw==" and decode of that text is "ABCDEFG".
C16_Base64RoundTrip ==
    /\ bpc # "in" => Len(encoded) = 4 * ((Len(bytes) + 2) \div 3)
    /\ bpc = "decoded" => decoded = bytes
    /\ (bpc # "in" /\ bytes = ABCDEFG) => encoded = QUJDREVGRw
    /\ (bpc = "decoded" /\ encoded = QUJDREVGRw) => decoded = ABCDEFG

C16_Witness ==
    /\ bpc = "decoded"
    /\ bytes = ABCDEFG
    /\ encoded = QUJDREVGRw
    /\ decoded = ABCDEFG

(***************************************************************************)
(*                  CLAIMS ABOUT THE TRANSPORT, CONTINUED                  *)
(***************************************************************************)
\* A request is in flight that follows a redirect: `res` is still the 3xx
\* response to the request before it.
Followed == hpc = "await" /\ Len(requests) >= 2
PreviousRequest == requests[Len(requests) - 1]

\* C18: the request sent after a followed redirect goes to the URL the
\* Location resolves to against the URL of the request before it, with the
\* Cookie header the store gives for that URL; in http_req and in
\* Client::req.
C18_RedirectTarget ==
    Followed =>
        LET target == Join(PreviousRequest.url, res.location) IN
        /\ LastRequest.url = target
        /\ LastRequest.cookie = CookieHeader(cookie_store, target)

\* The response `res` to the last request has been dealt with: the call
\* has returned, or it is about to send the next request of the chain.
Handled == (hpc = "done" \/ (hpc = "loop" /\ ~call)) /\ res.kind = "http"

\* C19: once a response with a Set-Cookie header has been dealt with,
\* whatever its status, the store holds its cookie for the requested URL.
C19_CookieAbsorption ==
    Handled /\ res.setCookie \in CookieValues =>
        cookie_store[LastRequest.url.host] = res.setCookie

\* C20: of the requests of one call only the first can be a POST or carry
\* the form; every request sent after a redirect is a GET without a form.
C20_MethodDowngrade ==
    \A k \in 1 .. Len(requests) :
        /\ k > 1 => requests[k].method = "GET" /\ ~requests[k].form
        /\ requests[k].form => k = 1 /\ requests[k].method = "POST"

\* A post_form call whose first request was redirected and followed.
C20_Witness ==
    /\ Len(requests) >= 3
    /\ requests[1].method = "POST" /\ requests[1].form
    /\ requests[3].method = "GET"

(***************************************************************************)
(*                     CLAIMS ABOUT THE SAMPLE TESTS                       *)
(***************************************************************************)
TestedCases == Selected(targs.all, targs.case_num, 0)
CasePasses(c) == c.run.kind = "exit0" /\ cmp_output(c.run.stdout, c.output).ok
SamplesDone == tpc = "done" /\ targs.mode = "samples" /\ tres # NoTestResult
LastLine == tout[Len(tout)]

\* C17: test_samples returns Ok(true) exactly when the build succeeded and
\* every selected case exited successfully with an output cmp_output
\* accepts; the counts on its FAILED line are the numbers of passing and
\* failing selected cases, which sum to the number selected; when the build
\* fails it prints nothing, returns Ok(false) and the command returns Ok;
\* test_custom returns the error "Build failed" when the build fails.
C17_SampleVerdict ==
    /\ SamplesDone =>
         /\ tres = OkT(TRUE) <=>
              /\ targs.build = "ok"
              /\ \A k \in 1 .. Len(TestedCases) : CasePasses(TestedCases[k])
         /\ tres = OkT(FALSE) /\ targs.build = "ok" =>
              /\ LastLine.t = "test result"
              /\ LastLine.passed + LastLine.failed = Len(TestedCases)
              /\ LastLine.failed =
                   Cardinality({k \in 1 .. Len(TestedCases) :
                                  ~CasePasses(TestedCases[k])})
         /\ targs.build = "failed" =>
              tres = OkT(FALSE) /\ tout = <<>> /\ tcmd.ok
    /\ tpc = "done" /\ targs.mode = "custom" /\ targs.build = "failed" =>
         tres = ErrT("Build failed") /\ tcmd = tres /\ tout = <<>>

\* Two selected cases, one passing by the error tolerance only and one
\* failing, reported as 1 passed; 1 failed.
C17_Witness ==
    /\ SamplesDone
    /\ Len(TestedCases) = 2
    /\ TestedCases[1].run.stdout # TestedCases[1].output
    /\ CasePasses(TestedCases[1])
    /\ ~CasePasses(TestedCases[2])
    /\ LastLine.passed = 1 /\ LastLine.failed = 1

(***************************************************************************)
(*                  CLAIMS ON THE TRACKER: THE FOLD                        *)
(***************************************************************************)
\* The rows the last poll was given for submission i.
RowsOf(i) == {k \in 1 .. Len(lastList) : lastList[k].id = i}
ReportedDone(i) == \E k \in RowsOf(i) : IsDone(lastList[k].status)

\* C21: when a recent-only session ends, every tracked submission the judge
\* reported Done to the last poll has a finalized indicator, finished once.
C21_TrackedFinalized ==
    recent_only /\ upc = "exit" =>
        \A i \in Tracked :
            ReportedDone(i) => ~dat[i].live /\ dat[i].finishes = 1

\* C22: after every fold the indicator of a submission folded in it is live
\* exactly when the status folded is not Done.
C22_LiveMarking ==
    \A i \in Ids :
        lastFold[i] # "-" =>
            (dat[i].live <=> lastFold[i] \notin {"Done", "DoneAgain"})

\* The place of submission i in the list the last poll was given.
PlaceOf(i) == CHOOSE k \in RowsOf(i) : TRUE
Folded == {foldSeq[k] : k \in 1 .. Len(foldSeq)}

\* C23: the submissions of a cycle are folded in ascending order of their
\* dates, and those of equal date in the order of the list.
C23_FoldOrder ==
    \A a, b \in 1 .. Len(foldSeq) :
        a < b =>
            \/ date[foldSeq[a]] < date[foldSeq[b]]
            \/ /\ date[foldSeq[a]] = date[foldSeq[b]]
               /\ PlaceOf(foldSeq[a]) < PlaceOf(foldSeq[b])

\* A list that names the later submission first: the fold takes the
\* earlier one first.
C23_Witness ==
    /\ Len(foldSeq) = 2 /\ Len(lastList) = 2
    /\ date[lastList[1].id] > date[lastList[2].id]
    /\ foldSeq = <<lastList[2].id, lastList[1].id>>

\* C24: in recent-only mode a listed submission is folded exactly when it is
\* dated no more than 10 seconds before the start of the tracking or is not
\* Done; in continuous mode every listed submission is folded.
C24_RecentOnlyScope ==
    \A k \in 1 .. Len(lastList) :
        lastList[k].id \in Folded <=>
            \/ ~recent_only
            \/ cur_time - Millis(lastList[k].date) <= Millis(RecentSeconds)
            \/ ~IsDone(lastList[k].status)

\* C25: the sleep between two polls is floor(interval / 100) ticks of 100
\* ms, interval being the configured one raised to 1000, hence at least
\* 1000 ms; the ticks go to the live indicators, and the sleep neither polls
\* nor changes an indicator.
C25_Pacing ==
    /\ [](upc = "poll" /\ polls > 0 =>
            LET interval == IF update_interval < 1000 THEN 1000
                            ELSE update_interval
            IN  /\ pace.ticks = interval \div 100
                /\ pace.slept = 100 * pace.ticks
                /\ pace.slept >= 1000
                /\ pace.ticked = {i \in Tracked : dat[i].live})
    /\ [][upc = "sleep" /\ upc' = "poll" =>
            polls' = polls /\ dat' = dat /\ pace'.slept >= 1000]_vars

\* A second poll is due after a sleep that ticked a live indicator, with a
\* configured interval below 1000.
C25_Witness ==
    /\ upc = "poll" /\ polls > 0
    /\ update_interval < 1000
    /\ pace.ticked # {}
    /\ pace.ticked # Tracked

\* C26: the call returns only when both tasks have ended; `complete` goes
\* from false to true only, in a step of the poll task, and no step of the
\* redraw task changes it.
C26_JoinBarrier ==
    /\ [](wpc = "returned" /\ upc # "idle" =>
            rpc = "exit" /\ upc \in {"exit", "failed", "panicked"})
    /\ [][complete' # complete =>
            ~complete /\ complete' /\ upc = "poll" /\ upc' = "exit"
              /\ rpc' = rpc]_vars
    /\ [][rpc' # rpc => complete' = complete]_vars

\* The call has returned the identifier after both tasks ended.
C26_Witness ==
    /\ wpc = "returned"
    /\ wresult.ok /\ wresult.val.some
    /\ rpc = "exit" /\ upc = "exit"
    /\ complete

\* The first poll of a recent-only session has returned a list in which
\* every submission is Done and dated more than 10 seconds before the start.
FirstPollOutOfScope ==
    /\ recent_only /\ polls = 1 /\ ~failure.some
    /\ \A k \in 1 .. Len(lastList) :
          /\ IsDone(lastList[k].status)
          /\ cur_time - Millis(lastList[k].date) > Millis(RecentSeconds)

\* C29: a recent-only session whose first poll lists nothing in scope ends
\* with that poll and returns no identifier.
C29_EmptyScope ==
    FirstPollOutOfScope =>
        /\ upc = "exit" /\ complete
        /\ Folded = {}
        /\ updRes = OkRes(NoneId)

(***************************************************************************)
(*                  CLAIMS ON THE TRANSPORT: THE ORIGIN                    *)
(***************************************************************************)
\* C28: every request of an http_req call, the first and every hop, goes to
\* the origin host, and the store never holds a cookie for another host, so
\* no Cookie header is built for one.
C28_OriginConfinement ==
    impl = "AtCoder" =>
        /\ \A k \in 1 .. Len(requests) : requests[k].url.host = OriginHost
        /\ \A h \in Hosts \ {OriginHost} : cookie_store[h] = NoCookie

\* A call whose second response, carrying a cookie, redirected to another
\* host while redirects were left: the cookie is stored for the origin and
\* the call has failed without a third request.
C28_Witness ==
    /\ impl = "AtCoder" /\ hpc = "done"
    /\ Len(requests) = 2 /\ Len(responses) = 2
    /\ responses[2].target = OtherHost
    /\ res.setCookie \in CookieValues
    /\ cookie_store[OriginHost] = res.setCookie
    /\ hresult = Err([kind |-> "CrossHost"])

(***************************************************************************)
(*                     CLAIMS ON THE SUBMISSION GATE                       *)
(***************************************************************************)
\* The cases the command tests.
TestedAll ==
    Selected(targs.all, IF targs.mode = "samples" THEN targs.case_num ELSE {}, 0)

\* The sample tests of the command pass.
SamplesPassed ==
    /\ targs.build = "ok"
    /\ \A k \in 1 .. Len(TestedAll) : CasePasses(TestedAll[k])

\* C30: `submit` sends the submit request only if the sample tests passed
\* or --skip-test or --force is given, and starts a tracking session,
\* recent-only, only after the request succeeded; `test --submit` sends it
\* only if the tests passed and starts no session.
C30_SubmissionGating ==
    tpc = "done" =>
        /\ targs.mode = "submit" =>
             /\ tsubmit =>
                  \/ targs.skip_test
                  \/ targs.force
                  \/ SamplesPassed
             /\ ttrack.started =>
                  tsubmit /\ targs.submit = "ok" /\ ttrack.recent_only
        /\ targs.mode = "samples" =>
             /\ tsubmit => targs.submit # "no" /\ SamplesPassed
                             /\ CaseNumsFound(targs.case_num, targs.all)
             /\ ~ttrack.started
        /\ targs.mode = "custom" => ~tsubmit /\ ~ttrack.started

\* A `submit` without flags whose sample failed: the command prints that it
\* did not submit and ends without a request or a session.
C30_Witness ==
    /\ tpc = "done" /\ targs.mode = "submit"
    /\ ~targs.skip_test /\ ~targs.force
    /\ targs.build = "ok" /\ Len(targs.all) = 1 /\ ~SamplesPassed
    /\ tcmd = OkT(TRUE)
    /\ ~tsubmit /\ ~ttrack.started
    /\ tout[Len(tout)].t = "Did not submit"

(***************************************************************************)
(*                   CLAIMS ON THE SHARED SESSION FILE                     *)
(***************************************************************************)
BothEndedShare == \A i \in Invocations : ipc[i] = "ended"
LastTornDown == tornDown[Len(tornDown)]

\* C27: when both invocations have ended, the file holds exactly the store
\* of the one torn down last.
C27_LastWriterWins ==
    BothEndedShare =>
        /\ disk.exists
        /\ disk.lines = StoreLines(istore[LastTornDown])

====
